---------------------------- MODULE Spec2Model ----------------------------
(***************************************************************************)
(* A model of the reactive update core of SpandrixEngine                   *)
(* (src/src/templateEngine.js, the first class of the file).               *)
(*                                                                         *)
(* The engine is single-threaded.  A synchronous handler is one action;    *)
(* what the code defers with Promise.resolve().then(...) or with a         *)
(* promise chain is a later action.  The module holds one state machine    *)
(* per subsystem, each with its own variables and its own specification:   *)
(*                                                                         *)
(*   SpecReactive   the set / deleteProperty traps of _makeReactive        *)
(*   SpecRoot       root data writes and the root re-render scheduler      *)
(*   SpecFetch      _processFetchDirective and its promise chain           *)
(*   SpecIf         _processIfDirective and its updateIfBlock closure      *)
(*   SpecRepeat     _processRepeatDirective under the render entry points  *)
(*   SpecProc       _processNode called twice on one node                  *)
(*   SpecComp       the component lifecycle of _renderComponent,           *)
(*                  $update and _destroyComponent                          *)
(*                                                                         *)
(* A specification leaves the variables of the other subsystems unchanged. *)
(***************************************************************************)
EXTENDS Integers, Sequences, FiniteSets, TLC

VARIABLES
    \* ---- reactive store ----
    target,      \* the host object of one reactive container: key -> JS value
    lastOp,      \* the last trap that ran and the callback invocations it made
    \* ---- root render scheduler ----
    rootData,               \* _currentRootDataTarget: key -> JS value
    rootRerenderScheduled,  \* _rootRerenderScheduled
    microtasks,             \* the microtask queue, oldest first
    phase,                  \* "sync": the tick's synchronous code runs; "micro": its microtasks drain
    tickWrites,             \* writes made by the synchronous code of this tick
    tickMuts,               \* those of them that changed root data
    tickRenders,            \* root re-renders run in this tick: <<beforeRootRender, afterRootRender>> calls
    renderSaw,              \* what the last root re-render read: the data and the tick's mutation count
    \* ---- fetch directive ----
    fs,          \* the fetch-state container: $loading, $error, data and the _spx bookkeeping
    nodeMark,    \* _spx_node_is_fetching_this_request_id of the node that stays in the tree
    reqs,        \* the requests whose promise chain has not finished, oldest first
    issued,      \* calls of engine.request so far
    lastSettle,  \* the container as the last .finally() handler left it
    \* ---- conditional directive ----
    ifShow,        \* the component data key the condition reads (truthy when > 0)
    ifDom,         \* the binding's DOM: children of currentParent and of parentFragment,
                   \* fresh elements created, elements holding a registered listener
    ifHasFragment, \* whether _processIfDirective was given a parentFragment
    ifToggled,     \* every re-evaluation so far flipped the condition
    \* ---- loop directive under a render ----
    rpItems,     \* the collection the loop expression evaluates to
    rpPosition,  \* where the loop element sits in the template: "top" or "nested"
    rpDom,       \* children of the loop's container as the last render left them
    rpFresh,     \* the last render read the current collection
    \* ---- _processNode called again on one node ----
    pnKind,      \* what the node carries: "plain", "on", "model", "repeat"
    pnPf,        \* the parentFragment argument: "null", "same", "other"
    pnItems,     \* the collection, for a loop node
    pn,          \* the node, its container, the fragment and the listener counts
    pnCalls,     \* calls of _processNode on the node so far
    pnFirst,     \* pn as the first call left it
    \* ---- one component instance ----
    comp,              \* the instance: flags, $el, listener counts, host content, callback log
    compTpl,           \* what one compile of its template registers, and where its host is
    compMountPending,  \* the deferred mount step is queued
    compCalls,         \* calls of $destroy() and $update() so far
    compLast,          \* the last call: its kind and the instance before it
    \* ---- applyData ----
    adOriginal,  \* _originalRootTemplate: the root's markup at construction
    adCurrent,   \* _currentRootTemplateString (set: FALSE while it is null)
    adData,      \* the value of the key the template reads in the current root data
    adRoot,      \* the root element's content
    adLast,      \* the last operation on the root
    \* ---- global state watchers ----
    swValue,      \* $state.x
    swWatchers,   \* _stateWatchers: the registered watchers of path "x", in order
    swLastValue,  \* watcher -> its lastValue
    swCreated,    \* watchers created by watchState so far
    swUnwatched,  \* watchers whose unwatch function has returned
    swDispatch,   \* the callback invocations of the last $state change
    \* ---- component props and data seen through the template context ----
    cpHasDataFn,  \* the definition has a data() factory
    cpProps,      \* $props: the value of the declared prop "title"
    cpData,       \* _componentData: key -> value, "absent" when the key is not in it
    cpMounted,    \* _mounted
    cpRenders,    \* re-renders ($update) performed
    cpLast,       \* the last operation, with what the component read and the renders before it
    \* ---- data-model on a checkbox ----
    mbValue,     \* the value at the bound data path
    mbControl,   \* the checkbox: checked, model listeners attached, handler field set
    mbRegistry,  \* _eventListeners entries whose handler is a model handler of the control
    mbPasses,    \* processing passes over the control so far
    mbLast,      \* the last operation
    \* ---- objects, reactive wrappers and the path resolver ----
    heap,    \* object identity -> the object: plain, reactive proxy, or not yet created
    hpLast,  \* the last operation and what it returned
    \* ---- _buildScopedEvaluator ----
    evExpr,      \* the expression the evaluator was built for (a token sequence)
    evScope,     \* the names in scope when it was built
    evStrict,    \* options.strictExpressions
    evKind,      \* "none", "empty", "blocked", "compiled" or "compileError"
    evCompiles,  \* how many times new Function was called with the expression
    evRuns,      \* how many times the compiled function was run
    evCalls,     \* how many times the evaluator was invoked
    evResult,    \* what the last invocation returned
    \* ---- events on an element that carries data-on: attributes ----
    etHost,     \* the element: component tag or not, its data-on: names, its listeners
    etEvents,   \* event name -> events dispatched on the element
    etHandled,  \* event name -> invocations of the handler named at the usage site
    \* ---- slot content of a component ----
    slContent,    \* the elements written between the component's tags
    slSlots,      \* $slots.default: the processed nodes kept by the instance
    slProjected,  \* the nodes standing in the component's DOM in place of <slot>
    slFired,      \* event name -> bound events fired on projected elements
    slHandled,    \* event name -> invocations of the usage-site handler
    \* ---- an element with data-safe-html ----
    shOptions,  \* options.allowRawHTML and options.missingValuePlaceholder
    shValue,    \* the value of the attribute's expression in the data
    shHtml,     \* whether the element was processed, and its innerHTML
    \* ---- computed properties of a component instance ----
    cmOrder,    \* the definition order of the computed properties
    cmInputs,   \* the data value and the $state value the first getter reads
    cmComputed, \* _computedValuesCache and the isFresh flags
    cmMounted,  \* _mounted
    cmLast,     \* the last operation; for a compilation, what it started from
    \* ---- component hosts leaving the rendered tree ----
    rmInst,     \* instance id -> where its host was rendered, whether it is in the tree, destroyed
    \* ---- $watch watchers of a mounted component instance ----
    cwVals,      \* the data value user.name, the prop title, the $state value n
    cwDouble,    \* the cached value of the computed property double (of user.name)
    cwWatchers,  \* _watchers: path, recorded oldValue, whether the callback throws
    cwDefWatch,  \* the definition's watch handler for the changed key: none, ok, throws
    cwLast,      \* the last change: its key, the watchers before it, what ran
    \* ---- .sync / data-model bindings on nested component hosts ----
    syListens,  \* host -> the event its sync listener is added for ("none": no binding)
    syBound,    \* host -> the value at the parent path bound on that host
    syLast,     \* the last $emit: the emitting host, the event, the value, the paths before
    \* ---- the handler of a data-on: attribute ----
    hdHandler,  \* the attribute's value: a name, bare, called with arguments, or indexed
    hdOptions,  \* the names in scope and options.strictExpressions
    hdBound,    \* "none" before the attribute sweep, then "null" or "listener"
    hdFires,    \* events fired on the element
    hdLast,     \* what the last event resolved and invoked
    \* ---- setState with several keys, callbacks that write to $state ----
    sbVals,      \* $state: key -> value
    sbWatchers,  \* _stateWatchers: the path and callback of each watcher, in registration order
    sbLast,      \* the lastValue of each watcher
    sbOp,        \* the last setState: its object, $state before it, the callbacks it ran
    \* ---- a fetch directive in the root template, over re-renders ----
    qlCfg,        \* data-fetch-cache="false"? what the transport does with the requests
    qlC,          \* the fetch-state container in the root data
    qlRendered,   \* applyData has rendered the root
    qlScheduled,  \* _rootRerenderScheduled: a root re-render microtask is queued
    qlReq,        \* the request: "none", "flight", "resolved" / "rejected" (.finally() not yet run)
    qlCalls,      \* calls of engine.request, counted up to MaxTransportCalls
    \* ---- root re-render scheduling over renders that write, throw, and destroy() ----
    scData,       \* a key of the root data
    scFlag,       \* _rootRerenderScheduled
    scQueue,      \* the microtask queue: "render" and "catch" jobs
    scPhase,      \* "sync": code of a task runs; "micro": the queue drains; "render": _reRenderRoot runs
    scDirty,      \* the root data changed and no re-render has started since
    scRoot,       \* the root element: "empty" or the data value it renders
    scDestroyed,  \* destroy() has returned
    \* ---- the listener registry over root re-renders ----
    lrTpl,        \* the root template: which data-on elements it has
    lrShow,       \* the root data key the template's data-if reads
    lrRenders,    \* root renders so far
    lrTree,       \* the data-on elements of the rendered tree
    lrListeners,  \* _eventListeners
    \* ---- the watchers a conditional directive adds to a component instance ----
    iwData,       \* _componentData: the keys the condition reads
    iwRenders,    \* compilations of the instance's template so far
    iwWatchers,   \* componentInstance._watchers
    iwLast,       \* the last operation and the renders whose updateIfBlock it ran
    \* ---- a loop inside a wrapper element, with conditional directives ----
    liTpl,        \* the template: the wrapper's data-if and the loop element's own data-if
    liItems,      \* the collection: for each entry, whether item.ok holds
    liOut         \* the last render pass: the collection it saw and the nodes after the anchor

rxVars == <<target, lastOp>>
rootVars == <<rootData, rootRerenderScheduled, microtasks, phase, tickWrites,
              tickMuts, tickRenders, renderSaw>>

\* What an action of one subsystem leaves alone: the other subsystems.
fetchVars == <<fs, nodeMark, reqs, issued, lastSettle>>

ifVars == <<ifShow, ifDom, ifHasFragment, ifToggled>>
rpVars == <<rpItems, rpPosition, rpDom, rpFresh>>
pnVars == <<pnKind, pnPf, pnItems, pn, pnCalls, pnFirst>>
compVars == <<comp, compTpl, compMountPending, compCalls, compLast>>
adVars == <<adOriginal, adCurrent, adData, adRoot, adLast>>
swVars == <<swValue, swWatchers, swLastValue, swCreated, swUnwatched, swDispatch>>
cpVars == <<cpHasDataFn, cpProps, cpData, cpMounted, cpRenders, cpLast>>
mbVars == <<mbValue, mbControl, mbRegistry, mbPasses, mbLast>>
hpVars == <<heap, hpLast>>
evVars == <<evExpr, evScope, evStrict, evKind, evCompiles, evRuns, evCalls, evResult>>
etVars == <<etHost, etEvents, etHandled>>
slVars == <<slContent, slSlots, slProjected, slFired, slHandled>>
shVars == <<shOptions, shValue, shHtml>>
cmVars == <<cmOrder, cmInputs, cmComputed, cmMounted, cmLast>>
rmVars == <<rmInst>>
cwVars == <<cwVals, cwDouble, cwWatchers, cwDefWatch, cwLast>>
syVars == <<syListens, syBound, syLast>>
hdVars == <<hdHandler, hdOptions, hdBound, hdFires, hdLast>>
sbVars == <<sbVals, sbWatchers, sbLast, sbOp>>
qlVars == <<qlCfg, qlC, qlRendered, qlScheduled, qlReq, qlCalls>>
scVars == <<scData, scFlag, scQueue, scPhase, scDirty, scRoot, scDestroyed>>
lrVars == <<lrTpl, lrShow, lrRenders, lrTree, lrListeners>>
iwVars == <<iwData, iwRenders, iwWatchers, iwLast>>
liVars == <<liTpl, liItems, liOut>>

RxFrame == UNCHANGED <<rootVars, fetchVars, ifVars, rpVars, pnVars, compVars, adVars, swVars, cpVars, mbVars, hpVars, evVars, etVars, slVars, shVars, cmVars, rmVars, cwVars, syVars, hdVars, sbVars, qlVars, scVars, lrVars, iwVars, liVars>>
RootFrame == UNCHANGED <<rxVars, fetchVars, ifVars, rpVars, pnVars, compVars, adVars, swVars, cpVars, mbVars, hpVars, evVars, etVars, slVars, shVars, cmVars, rmVars, cwVars, syVars, hdVars, sbVars, qlVars, scVars, lrVars, iwVars, liVars>>
FetchFrame == UNCHANGED <<rxVars, rootVars, ifVars, rpVars, pnVars, compVars, adVars, swVars, cpVars, mbVars, hpVars, evVars, etVars, slVars, shVars, cmVars, rmVars, cwVars, syVars, hdVars, sbVars, qlVars, scVars, lrVars, iwVars, liVars>>
IfFrame == UNCHANGED <<rxVars, rootVars, fetchVars, rpVars, pnVars, compVars, adVars, swVars, cpVars, mbVars, hpVars, evVars, etVars, slVars, shVars, cmVars, rmVars, cwVars, syVars, hdVars, sbVars, qlVars, scVars, lrVars, iwVars, liVars>>
RpFrame == UNCHANGED <<rxVars, rootVars, fetchVars, ifVars, pnVars, compVars, adVars, swVars, cpVars, mbVars, hpVars, evVars, etVars, slVars, shVars, cmVars, rmVars, cwVars, syVars, hdVars, sbVars, qlVars, scVars, lrVars, iwVars, liVars>>
PnFrame == UNCHANGED <<rxVars, rootVars, fetchVars, ifVars, rpVars, compVars, adVars, swVars, cpVars, mbVars, hpVars, evVars, etVars, slVars, shVars, cmVars, rmVars, cwVars, syVars, hdVars, sbVars, qlVars, scVars, lrVars, iwVars, liVars>>
CompFrame == UNCHANGED <<rxVars, rootVars, fetchVars, ifVars, rpVars, pnVars, adVars, swVars, cpVars, mbVars, hpVars, evVars, etVars, slVars, shVars, cmVars, rmVars, cwVars, syVars, hdVars, sbVars, qlVars, scVars, lrVars, iwVars, liVars>>
AdFrame == UNCHANGED <<rxVars, rootVars, fetchVars, ifVars, rpVars, pnVars, compVars, swVars, cpVars, mbVars, hpVars, evVars, etVars, slVars, shVars, cmVars, rmVars, cwVars, syVars, hdVars, sbVars, qlVars, scVars, lrVars, iwVars, liVars>>
SwFrame == UNCHANGED <<rxVars, rootVars, fetchVars, ifVars, rpVars, pnVars, compVars, adVars, cpVars, mbVars, hpVars, evVars, etVars, slVars, shVars, cmVars, rmVars, cwVars, syVars, hdVars, sbVars, qlVars, scVars, lrVars, iwVars, liVars>>
CpFrame == UNCHANGED <<rxVars, rootVars, fetchVars, ifVars, rpVars, pnVars, compVars, adVars, swVars, mbVars, hpVars, evVars, etVars, slVars, shVars, cmVars, rmVars, cwVars, syVars, hdVars, sbVars, qlVars, scVars, lrVars, iwVars, liVars>>
MbFrame == UNCHANGED <<rxVars, rootVars, fetchVars, ifVars, rpVars, pnVars, compVars, adVars, swVars, cpVars, hpVars, evVars, etVars, slVars, shVars, cmVars, rmVars, cwVars, syVars, hdVars, sbVars, qlVars, scVars, lrVars, iwVars, liVars>>
HpFrame == UNCHANGED <<rxVars, rootVars, fetchVars, ifVars, rpVars, pnVars, compVars, adVars, swVars, cpVars, mbVars, evVars, etVars, slVars, shVars, cmVars, rmVars, cwVars, syVars, hdVars, sbVars, qlVars, scVars, lrVars, iwVars, liVars>>
EvFrame == UNCHANGED <<rxVars, rootVars, fetchVars, ifVars, rpVars, pnVars, compVars, adVars, swVars, cpVars, mbVars, hpVars, etVars, slVars, shVars, cmVars, rmVars, cwVars, syVars, hdVars, sbVars, qlVars, scVars, lrVars, iwVars, liVars>>
EtFrame == UNCHANGED <<rxVars, rootVars, fetchVars, ifVars, rpVars, pnVars, compVars, adVars, swVars, cpVars, mbVars, hpVars, evVars, slVars, shVars, cmVars, rmVars, cwVars, syVars, hdVars, sbVars, qlVars, scVars, lrVars, iwVars, liVars>>
SlFrame == UNCHANGED <<rxVars, rootVars, fetchVars, ifVars, rpVars, pnVars, compVars, adVars, swVars, cpVars, mbVars, hpVars, evVars, etVars, shVars, cmVars, rmVars, cwVars, syVars, hdVars, sbVars, qlVars, scVars, lrVars, iwVars, liVars>>
ShFrame == UNCHANGED <<rxVars, rootVars, fetchVars, ifVars, rpVars, pnVars, compVars, adVars, swVars, cpVars, mbVars, hpVars, evVars, etVars, slVars, cmVars, rmVars, cwVars, syVars, hdVars, sbVars, qlVars, scVars, lrVars, iwVars, liVars>>
CmFrame == UNCHANGED <<rxVars, rootVars, fetchVars, ifVars, rpVars, pnVars, compVars, adVars, swVars, cpVars, mbVars, hpVars, evVars, etVars, slVars, shVars, rmVars, cwVars, syVars, hdVars, sbVars, qlVars, scVars, lrVars, iwVars, liVars>>
RmFrame == UNCHANGED <<rxVars, rootVars, fetchVars, ifVars, rpVars, pnVars, compVars, adVars, swVars, cpVars, mbVars, hpVars, evVars, etVars, slVars, shVars, cmVars, cwVars, syVars, hdVars, sbVars, qlVars, scVars, lrVars, iwVars, liVars>>
CwFrame == UNCHANGED <<rxVars, rootVars, fetchVars, ifVars, rpVars, pnVars, compVars, adVars, swVars, cpVars, mbVars, hpVars, evVars, etVars, slVars, shVars, cmVars, rmVars, syVars, hdVars, sbVars, qlVars, scVars, lrVars, iwVars, liVars>>
SyFrame == UNCHANGED <<rxVars, rootVars, fetchVars, ifVars, rpVars, pnVars, compVars, adVars, swVars, cpVars, mbVars, hpVars, evVars, etVars, slVars, shVars, cmVars, rmVars, cwVars, hdVars, sbVars, qlVars, scVars, lrVars, iwVars, liVars>>
HdFrame == UNCHANGED <<rxVars, rootVars, fetchVars, ifVars, rpVars, pnVars, compVars, adVars, swVars, cpVars, mbVars, hpVars, evVars, etVars, slVars, shVars, cmVars, rmVars, cwVars, syVars, sbVars, qlVars, scVars, lrVars, iwVars, liVars>>
SbFrame == UNCHANGED <<rxVars, rootVars, fetchVars, ifVars, rpVars, pnVars, compVars, adVars, swVars, cpVars, mbVars, hpVars, evVars, etVars, slVars, shVars, cmVars, rmVars, cwVars, syVars, hdVars, qlVars, scVars, lrVars, iwVars, liVars>>
QlFrame == UNCHANGED <<rxVars, rootVars, fetchVars, ifVars, rpVars, pnVars, compVars, adVars, swVars, cpVars, mbVars, hpVars, evVars, etVars, slVars, shVars, cmVars, rmVars, cwVars, syVars, hdVars, sbVars, scVars, lrVars, iwVars, liVars>>
ScFrame == UNCHANGED <<rxVars, rootVars, fetchVars, ifVars, rpVars, pnVars, compVars, adVars, swVars, cpVars, mbVars, hpVars, evVars, etVars, slVars, shVars, cmVars, rmVars, cwVars, syVars, hdVars, sbVars, qlVars, lrVars, iwVars, liVars>>
LrFrame == UNCHANGED <<rxVars, rootVars, fetchVars, ifVars, rpVars, pnVars, compVars, adVars, swVars, cpVars, mbVars, hpVars, evVars, etVars, slVars, shVars, cmVars, rmVars, cwVars, syVars, hdVars, sbVars, qlVars, scVars, iwVars, liVars>>
IwFrame == UNCHANGED <<rxVars, rootVars, fetchVars, ifVars, rpVars, pnVars, compVars, adVars, swVars, cpVars, mbVars, hpVars, evVars, etVars, slVars, shVars, cmVars, rmVars, cwVars, syVars, hdVars, sbVars, qlVars, scVars, lrVars, liVars>>
LiFrame == UNCHANGED <<rxVars, rootVars, fetchVars, ifVars, rpVars, pnVars, compVars, adVars, swVars, cpVars, mbVars, hpVars, evVars, etVars, slVars, shVars, cmVars, rmVars, cwVars, syVars, hdVars, sbVars, qlVars, scVars, lrVars, iwVars>>

(***************************************************************************)
(* JS values.  A value is a record [p, o]: p is the primitive ("undefined",*)
(* "null", "NaN", a number literal, "fn" for a function) or "obj"; o is    *)
(* the object's own properties in insertion order, as <<key, primitive>>   *)
(* pairs (empty for a primitive).                                          *)
(***************************************************************************)
Prim(p) == [p |-> p, o |-> <<>>]
Obj(fields) == [p |-> "obj", o |-> fields]

Undefined == Prim("undefined")

Prims == {"undefined", "null", "NaN", "1", "2", "fn"}

ObjShapes ==
    { <<>>,
      << <<"a", "1">> >>,
      << <<"a", "2">> >>,
      << <<"a", "1">>, <<"b", "2">> >>,
      << <<"b", "2">>, <<"a", "1">> >>,
      << <<"a", "undefined">> >> }

JSVals == {Prim(p) : p \in Prims} \cup {Obj(f) : f \in ObjShapes}

\* The keys of the container: an ordinary key and an internal ('_' prefixed) one.
Keys == {"x", "_spxFlag"}

StartsWithUnderscore_Never(key) == FALSE

\* String(key).startsWith('_')
StartsWithUnderscore(key) == key = "_spxFlag"

IsObject(v) == v.p = "obj"

RECURSIVE SelectPairs(_, _)
\* The pairs of a property list that JSON.stringify keeps: a property whose
\* value is undefined or a function is left out.
SelectPairs(fields, i) ==
    IF i > Len(fields) THEN <<>>
    ELSE LET kv == fields[i]
             rest == SelectPairs(fields, i + 1)
         IN  IF kv[2] \in {"undefined", "fn"} THEN rest
             ELSE IF kv[2] = "NaN" THEN << <<kv[1], "null">> >> \o rest
             ELSE <<kv>> \o rest

\* JSON.stringify(v), as a list of <<key, text>> pairs: a primitive is one pair
\* with key "#", an object starts with the pair <<"{", "">>.  undefined and a
\* function give undefined ("#undef"); NaN gives "null".
JSONstringify(v) ==
    IF IsObject(v) THEN << <<"{", "">> >> \o SelectPairs(v.o, 1)
    ELSE IF v.p \in {"undefined", "fn"} THEN << <<"#", "#undef">> >>
    ELSE IF v.p = "NaN" THEN << <<"#", "null">> >>
    ELSE << <<"#", v.p>> >>

\* value === oldValue for primitives (NaN is not equal to itself; a function is
\* compared by identity and the model has one function).
StrictEqPrim(v, w) == ~IsObject(v) /\ ~IsObject(w) /\ v.p = w.p /\ v.p # "NaN"

\* Structural (deep) equality: the same primitive, or objects with the same own
\* keys and the same value under each key, whatever the insertion order.
StructEq(v, w) ==
    IF IsObject(v) /\ IsObject(w)
    THEN {v.o[i] : i \in DOMAIN v.o} = {w.o[i] : i \in DOMAIN w.o}
    ELSE ~IsObject(v) /\ ~IsObject(w) /\ v.p = w.p

\* hasChanged of handler.set: JSON.stringify(oldValue) !== JSON.stringify(value)
HasChanged(oldValue, value) == JSONstringify(oldValue) # JSONstringify(value)

(***************************************************************************)
(* handler.set(target, key, value): the new host object and the list of    *)
(* updateCallback invocations <<key, value, oldValue>> the trap makes.     *)
(***************************************************************************)
HandlerSet(t, key, value) ==
    LET oldValue == t[key] IN
    IF StrictEqPrim(value, oldValue)
    THEN [t |-> t, calls |-> <<>>]
    ELSE [t |-> [t EXCEPT ![key] = value],
          calls |-> IF ~StartsWithUnderscore(key) /\ HasChanged(oldValue, value)
                    THEN << <<key, value, oldValue>> >>
                    ELSE <<>>]

\* handler.deleteProperty(target, key): a deleted key reads as undefined.
HandlerDelete(t, key) ==
    LET oldValue == t[key] IN
    [t |-> [t EXCEPT ![key] = Undefined],
     calls |-> IF ~StartsWithUnderscore(key)
               THEN << <<key, Undefined, oldValue>> >>
               ELSE <<>>]

NoOp == [op |-> "none", key |-> "x", value |-> Undefined, old |-> Undefined,
         calls |-> <<>>]

\* The reactive-store variables while another subsystem runs.
RxIdle == target = [k \in Keys |-> Prim("null")] /\ lastOp = NoOp

\* proxy[key] = value
Write(key, value) ==
    LET r == HandlerSet(target, key, value) IN
    /\ target' = r.t
    /\ lastOp' = [op |-> "set", key |-> key, value |-> value,
                  old |-> target[key], calls |-> r.calls]
    /\ RxFrame

\* delete proxy[key]
DeleteProp(key) ==
    LET r == HandlerDelete(target, key) IN
    /\ target' = r.t
    /\ lastOp' = [op |-> "delete", key |-> key, value |-> Undefined,
                  old |-> target[key], calls |-> r.calls]
    /\ RxFrame

RxNext ==
    \/ \E key \in Keys, value \in JSVals : Write(key, value)
    \/ \E key \in Keys : DeleteProp(key)

(***************************************************************************)
(* Root render scheduler.                                                  *)
(***************************************************************************)
\* The writes a tick's synchronous code makes in the model.
MaxTickWrites == 3

RootKeys == {"count", "title"}
RootVals == {Prim("1"), Prim("2"), Obj(<< <<"a", "1">> >>)}

\* _scheduleRootReRender(): the flag and the microtask queue afterwards.
ScheduleRootReRender_NoFlag(sched, queue) ==
    [sched |-> TRUE, queue |-> Append(queue, "rootRender")]

ScheduleRootReRender(sched, queue) ==
    IF sched THEN [sched |-> sched, queue |-> queue]
    ELSE [sched |-> TRUE, queue |-> Append(queue, "rootRender")]

\* _rootDataUpdateCallback, once per invocation the trap made.
RootDataUpdateCallback(calls, sched, queue) ==
    IF calls = <<>> THEN [sched |-> sched, queue |-> queue]
    ELSE ScheduleRootReRender(sched, queue)

RootIdle ==
    /\ rootData = [k \in RootKeys |-> Prim("1")]
    /\ rootRerenderScheduled = FALSE
    /\ microtasks = <<>>
    /\ phase = "sync"
    /\ tickWrites = 0
    /\ tickMuts = 0
    /\ tickRenders = <<0, 0>>
    /\ renderSaw = [data |-> rootData, muts |-> 0]

\* this._currentRootData[key] = value, in the synchronous code of a tick.
MutateRoot(key, value) ==
    /\ phase = "sync"
    /\ tickWrites < MaxTickWrites
    /\ LET r == HandlerSet(rootData, key, value)
           s == RootDataUpdateCallback(r.calls, rootRerenderScheduled, microtasks)
       IN  /\ rootData' = r.t
           /\ rootRerenderScheduled' = s.sched
           /\ microtasks' = s.queue
           /\ tickMuts' = IF r.t # rootData THEN tickMuts + 1 ELSE tickMuts
    /\ tickWrites' = tickWrites + 1
    /\ UNCHANGED <<phase, tickRenders, renderSaw>>
    /\ RootFrame

\* The synchronous code of the tick returns: the microtasks start to drain.
EndSync ==
    /\ phase = "sync"
    /\ phase' = "micro"
    /\ UNCHANGED <<rootData, rootRerenderScheduled, microtasks, tickWrites,
                   tickMuts, tickRenders, renderSaw>>
    /\ RootFrame

\* The microtask of _scheduleRootReRender: the flag is reset, then _reRenderRoot
\* calls beforeRootRender, renders this._currentRootData and calls afterRootRender.
RootRenderMicrotask ==
    /\ phase = "micro"
    /\ microtasks # <<>>
    /\ Head(microtasks) = "rootRender"
    /\ microtasks' = Tail(microtasks)
    /\ rootRerenderScheduled' = FALSE
    /\ tickRenders' = <<tickRenders[1] + 1, tickRenders[2] + 1>>
    /\ renderSaw' = [data |-> rootData, muts |-> tickMuts]
    /\ UNCHANGED <<rootData, phase, tickWrites, tickMuts>>
    /\ RootFrame

\* The microtask queue is empty: the next tick starts.
NextTick ==
    /\ phase = "micro"
    /\ microtasks = <<>>
    /\ phase' = "sync"
    /\ tickWrites' = 0
    /\ tickMuts' = 0
    /\ tickRenders' = <<0, 0>>
    /\ UNCHANGED <<rootData, rootRerenderScheduled, microtasks, renderSaw>>
    /\ RootFrame

RootNext ==
    \/ \E key \in RootKeys, value \in RootVals : MutateRoot(key, value)
    \/ EndSync
    \/ RootRenderMicrotask
    \/ NextTick

(***************************************************************************)
(* Fetch directive.  One fetch-state container, read by the passes of      *)
(* _processFetchDirective over nodes whose effective (url, method)         *)
(* signature is "A" or "B".  Node 1 stays in the tree and is processed     *)
(* again; node 0 stands for a node a re-render has just created (its       *)
(* marker is unset when the pass starts, and no later pass sees it).       *)
(***************************************************************************)
\* The calls of engine.request in a behaviour of the model.
MaxRequests == 3

Sigs == {"A", "B"}
FetchNodes == {0, 1}

\* The payload the transport returns for a signature.
Payload(sig) == IF sig = "A" THEN "payloadA" ELSE "payloadB"

\* The container _processFetchDirective creates.
NewContainer ==
    [loading |-> FALSE, error |-> "null", data |-> "null", lastId |-> "none",
     success |-> FALSE, fetching |-> FALSE]

\* The marker a pass over node n finds.
MarkOf(mark, n) == IF n = 0 THEN "none" ELSE mark

\* _processFetchDirective from the computation of fetchRequestId on: the
\* container and the node marker afterwards, and whether engine.request is called.
ProcessFetchDirective(c, mark, n, sig, explicitNoCache) ==
    IF c.lastId = sig /\ c.success /\ ~explicitNoCache
    THEN [c |-> [c EXCEPT !.loading = FALSE],
          mark |-> IF MarkOf(mark, n) = sig /\ n # 0 THEN "none" ELSE mark,
          request |-> FALSE]
    ELSE IF MarkOf(mark, n) = sig \/ (c.fetching /\ c.lastId = sig)
    THEN [c |-> [c EXCEPT !.loading = TRUE], mark |-> mark, request |-> FALSE]
    ELSE [c |-> [c EXCEPT !.fetching = TRUE, !.lastId = sig, !.success = FALSE,
                          !.loading = TRUE, !.error = "null"],
          mark |-> IF n # 0 THEN sig ELSE mark,
          request |-> TRUE]

\* The .then() handler of the request for sig.
FetchThen(c, sig) ==
    [c EXCEPT !.data = Payload(sig), !.error = "null", !.success = TRUE]

\* The .catch() handler.
FetchCatch(c) == [c EXCEPT !.data = "null", !.error = "error"]

\* The .finally() handler: the container afterwards.
FetchFinally_KeepsLoading(c, sig) ==
    IF c.lastId = sig THEN [c EXCEPT !.fetching = FALSE] ELSE c

FetchFinally(c, sig) ==
    [c EXCEPT !.fetching = IF c.lastId = sig THEN FALSE ELSE @,
              !.loading = FALSE]

\* The .finally() handler: the marker of the request's node afterwards.
FetchFinallyMark(mark, sig) == IF mark = sig THEN "none" ELSE mark

NoSettle ==
    [valid |-> FALSE, sig |-> "A", ok |-> FALSE, alone |-> FALSE,
     latest |-> FALSE, markCleared |-> FALSE, c |-> NewContainer]

FetchIdle ==
    /\ fs = NewContainer
    /\ nodeMark = "none"
    /\ reqs = <<>>
    /\ issued = 0
    /\ lastSettle = NoSettle

\* One pass of _processFetchDirective over node n, whose interpolated url and
\* method give sig.
FetchPass(n, sig, explicitNoCache) ==
    LET r == ProcessFetchDirective(fs, nodeMark, n, sig, explicitNoCache) IN
    /\ r.request => issued < MaxRequests
    /\ fs' = r.c
    /\ nodeMark' = r.mark
    /\ IF r.request
       THEN /\ reqs' = Append([i \in DOMAIN reqs |-> [reqs[i] EXCEPT !.alone = FALSE]],
                              [sig |-> sig, node |-> n, st |-> "flight",
                               alone |-> reqs = <<>>])
            /\ issued' = issued + 1
       ELSE UNCHANGED <<reqs, issued>>
    /\ UNCHANGED lastSettle
    /\ FetchFrame

\* The transport resolves request i: its .then() handler runs.
FetchResolve(i) ==
    /\ i \in DOMAIN reqs
    /\ reqs[i].st = "flight"
    /\ fs' = FetchThen(fs, reqs[i].sig)
    /\ reqs' = [reqs EXCEPT ![i].st = "resolved"]
    /\ UNCHANGED <<nodeMark, issued, lastSettle>>
    /\ FetchFrame

\* The transport rejects request i: its .catch() handler runs.
FetchReject(i) ==
    /\ i \in DOMAIN reqs
    /\ reqs[i].st = "flight"
    /\ fs' = FetchCatch(fs)
    /\ reqs' = [reqs EXCEPT ![i].st = "rejected"]
    /\ UNCHANGED <<nodeMark, issued, lastSettle>>
    /\ FetchFrame

\* The .finally() handler of request i, a microtask after its .then() / .catch().
FetchSettle(i) ==
    /\ i \in DOMAIN reqs
    /\ reqs[i].st \in {"resolved", "rejected"}
    /\ LET q == reqs[i]
           m == IF q.node = 0 THEN q.sig ELSE nodeMark
           m2 == FetchFinallyMark(m, q.sig)
       IN  /\ fs' = FetchFinally(fs, q.sig)
           /\ nodeMark' = IF q.node = 0 THEN nodeMark ELSE m2
           /\ lastSettle' = [valid |-> TRUE, sig |-> q.sig, ok |-> q.st = "resolved",
                             alone |-> q.alone, latest |-> fs.lastId = q.sig,
                             markCleared |-> m2 = "none", c |-> fs']
    /\ reqs' = [j \in 1..(Len(reqs) - 1) |-> IF j < i THEN reqs[j] ELSE reqs[j + 1]]
    /\ UNCHANGED issued
    /\ FetchFrame

FetchNext ==
    \/ \E n \in FetchNodes, sig \in Sigs, nc \in BOOLEAN : FetchPass(n, sig, nc)
    \/ \E i \in 1..MaxRequests : FetchResolve(i)
    \/ \E i \in 1..MaxRequests : FetchReject(i)
    \/ \E i \in 1..MaxRequests : FetchSettle(i)

(***************************************************************************)
(* Conditional directive.  One element el with data-if, a child of the     *)
(* element currentParent, inside a component that is not mounted (its data *)
(* callback runs the watchers and no $update).  el has a descendant with a *)
(* data-on binding.  The watcher registered by _processIfDirective is the  *)
(* closure updateIfBlock over el, currentParent and parentFragment.        *)
(***************************************************************************)
\* The fresh elements updateIfBlock may create in a behaviour of the model.
MaxFresh == 3

\* Nodes: el, its placeholder comment, an unrelated sibling; 1, 2, ... are the
\* fresh clones of el._spxIfOriginalTemplateNode.
El == 0
Placeholder == -1
Sibling == -2

ShowVals == 0..2
Truthy(v) == v > 0

Contains(seq, x) == \E i \in DOMAIN seq : seq[i] = x

\* parent.replaceChild(new, old)
ReplaceChild(seq, new, old) == [i \in DOMAIN seq |-> IF seq[i] = old THEN new ELSE seq[i]]

\* updateIfBlock: the DOM after one evaluation of the condition.
UpdateIfBlock(d, hasFragment, shouldBeVisible) ==
    LET isActualElementInParent ==
            Contains(d.kids, El) \/ (hasFragment /\ Contains(d.fkids, El))
        isPlaceholderInParent ==
            Contains(d.kids, Placeholder) \/ (hasFragment /\ Contains(d.fkids, Placeholder))
        freshElement == d.fresh + 1
    IN
    IF shouldBeVisible
    THEN IF isPlaceholderInParent
         THEN [d EXCEPT !.kids = ReplaceChild(@, freshElement, Placeholder),
                        !.fresh = freshElement,
                        !.reg = @ \cup {freshElement}]
         ELSE IF ~isActualElementInParent
         THEN [d EXCEPT !.kids = IF hasFragment THEN @ ELSE Append(@, freshElement),
                        !.fkids = IF hasFragment THEN Append(@, freshElement) ELSE @,
                        !.fresh = freshElement,
                        !.reg = @ \cup {freshElement}]
         ELSE [d EXCEPT !.reg = @ \cup {El}]
    ELSE IF isActualElementInParent
         THEN [d EXCEPT !.reg = @ \ {El},
                        !.kids = ReplaceChild(@, Placeholder, El)]
         ELSE IF ~isPlaceholderInParent
         THEN [d EXCEPT !.kids = Append(@, Placeholder)]
         ELSE d

IfIdle ==
    /\ ifShow = 0
    /\ ifDom = [kids |-> <<Placeholder>>, fkids |-> <<>>, fresh |-> 0, reg |-> {}]
    /\ ifHasFragment = FALSE
    /\ ifToggled = TRUE

\* The state _processIfDirective leaves: el under currentParent, placeholder and
\* template cached, the watcher registered, updateIfBlock run once.
IfProcessed ==
    /\ ifShow \in ShowVals
    /\ ifHasFragment \in BOOLEAN
    /\ \E kids \in {<<El>>, <<Sibling, El>>, <<El, Sibling>>} :
           ifDom = UpdateIfBlock([kids |-> kids, fkids |-> <<>>, fresh |-> 0, reg |-> {}],
                                 ifHasFragment, Truthy(ifShow))
    /\ ifToggled = TRUE

\* A write of v to the watched key: the component data callback calls the
\* watcher when the value changed, and the watcher is updateIfBlock.
SetShow(v) ==
    /\ v # ifShow
    /\ LET d == UpdateIfBlock(ifDom, ifHasFragment, Truthy(v)) IN
           /\ d.fresh <= MaxFresh
           /\ ifDom' = d
    /\ ifShow' = v
    /\ ifToggled' = (ifToggled /\ Truthy(v) # Truthy(ifShow))
    /\ UNCHANGED ifHasFragment
    /\ IfFrame

IfNext == \E v \in ShowVals : SetShow(v)

(***************************************************************************)
(* Loop directive.  A node is a record (kind, item).  The element carrying *)
(* data-repeat has one descendant with a data-on binding, so every clone   *)
(* registers one listener when it is processed.  d.pkids are the children  *)
(* of the container the loop element was parsed into (if any), d.fkids the *)
(* children of a parentFragment that is another node than that container.  *)
(***************************************************************************)
\* The longest collection.
MaxItems == 2

ItemVals == {"a", "b", "c"}
Collections == UNION {[1..n -> ItemVals] : n \in 0..MaxItems}

LoopNode == [kind |-> "loop", item |-> "-"]
AnchorNode == [kind |-> "anchor", item |-> "-"]
OtherNode == [kind |-> "other", item |-> "-"]
ElementNode == [kind |-> "element", item |-> "-"]
CloneOf(x) == [kind |-> "clone", item |-> x]

\* processSingleItem over an array: one clone per entry, in order.
Clones(items) == [i \in DOMAIN items |-> CloneOf(items[i])]

IndexOf(seq, x) == CHOOSE i \in DOMAIN seq : seq[i] = x

\* The siblings after position a that the removal loop visits: the run of
\* clones that directly follows the anchor.
StaleRun(seq, a) ==
    CHOOSE k \in 0..(Len(seq) - a) :
        /\ \A j \in 1..k : seq[a + j].kind = "clone"
        /\ (a + k + 1 \in DOMAIN seq => seq[a + k + 1].kind # "clone")

\* A node as the parser leaves it, before any processing.
FreshNode(pkids, attached) ==
    [pkids |-> pkids, fkids |-> <<>>, attached |-> attached, anchored |-> FALSE,
     listeners |-> 0, registry |-> 0, sig |-> FALSE, onBound |-> FALSE,
     modelBound |-> FALSE, threw |-> FALSE]

\* _processRepeatDirective on the loop node of d.  threw: a DOM call raised
\* NotFoundError (replaceChild of a node that is not a child, insertBefore a
\* reference that is not a child); what was done before it stays done.
ProcessRepeatDirective(d, items, pf) ==
    LET effectiveParent ==
            IF d.attached \/ pf = "same" THEN "P"
            ELSE IF pf = "other" THEN "F" ELSE "none"
    IN
    IF effectiveParent = "none" THEN d
    ELSE IF ~d.anchored /\ ~d.attached THEN [d EXCEPT !.threw = TRUE]
    ELSE
    LET d1 == IF d.anchored THEN d
              ELSE [d EXCEPT !.pkids = [i \in DOMAIN @ |->
                                          IF @[i] = LoopNode THEN AnchorNode ELSE @[i]],
                             !.attached = FALSE,
                             !.anchored = TRUE]
        a == IndexOf(d1.pkids, AnchorNode)
        k == StaleRun(d1.pkids, a)
        d2 == [d1 EXCEPT !.pkids = SubSeq(@, 1, a) \o SubSeq(@, a + k + 1, Len(@)),
                         !.listeners = @ - k,
                         !.registry = @ - k]
        n == Len(items)
        d3 == [d2 EXCEPT !.listeners = @ + n, !.registry = @ + n]
    IN
    IF n = 0 THEN d2
    ELSE IF effectiveParent = "P"
    THEN [d3 EXCEPT !.pkids = SubSeq(@, 1, a) \o Clones(items) \o SubSeq(@, a + 1, Len(@))]
    ELSE IF a < Len(d2.pkids)
    THEN [d3 EXCEPT !.threw = TRUE]
    ELSE [d3 EXCEPT !.fkids = @ \o Clones(items)]

\* _processNode on the node of d, of the given kind: the signature short
\* circuit, the directive or binding the node carries, the try / catch.
ProcessNode(d0, kind, pf, items) ==
    LET d == [d0 EXCEPT !.threw = FALSE] IN
    IF d.sig /\ d.attached THEN d
    ELSE IF kind = "repeat"
    THEN LET r == ProcessRepeatDirective(d, items, pf) IN
         IF r.threw \/ r.anchored THEN r ELSE [r EXCEPT !.sig = TRUE]
    ELSE IF kind = "on"
    THEN IF d.onBound THEN [d EXCEPT !.sig = TRUE]
         ELSE [d EXCEPT !.listeners = @ + 1, !.registry = @ + 1,
                        !.onBound = TRUE, !.sig = TRUE]
    ELSE IF kind = "model"
    THEN LET e == IF d.modelBound
                  THEN [d EXCEPT !.listeners = @ - 1, !.registry = @ - 1]
                  ELSE d
         IN  [e EXCEPT !.listeners = @ + 1, !.registry = @ + 1,
                       !.modelBound = TRUE, !.sig = TRUE]
    ELSE [d EXCEPT !.sig = TRUE]

\* One render of a template whose loop element is at the given position: each
\* top-level node is cloned, processed while detached with the render's
\* fragment as parentFragment, and the node _processNode returns is appended.
\* The result is the children of the loop's container (the fragment for a
\* top-level loop, the enclosing element for a nested one).
RenderTemplate(position, items) ==
    IF position = "nested"
    THEN ProcessNode(FreshNode(<<LoopNode, OtherNode>>, TRUE), "repeat", "other", items).pkids
    ELSE LET r == ProcessNode(FreshNode(<<>>, FALSE), "repeat", "other", items)
             processedChild == IF r.anchored THEN AnchorNode ELSE LoopNode
         IN  Append(r.fkids, processedChild) \o <<OtherNode>>

RpIdle ==
    /\ rpItems = <<>>
    /\ rpPosition = "nested"
    /\ rpDom = <<AnchorNode, OtherNode>>
    /\ rpFresh = TRUE

\* After the first render.
RpRendered ==
    /\ rpItems \in Collections
    /\ rpPosition \in {"top", "nested"}
    /\ rpDom = RenderTemplate(rpPosition, rpItems)
    /\ rpFresh = TRUE

\* The collection changes.
RpSetItems(items) ==
    /\ items # rpItems
    /\ rpItems' = items
    /\ rpFresh' = FALSE
    /\ UNCHANGED <<rpPosition, rpDom>>
    /\ RpFrame

\* The next render: the container is emptied and rebuilt from the template.
RpRender ==
    /\ ~rpFresh
    /\ rpDom' = RenderTemplate(rpPosition, rpItems)
    /\ rpFresh' = TRUE
    /\ UNCHANGED <<rpItems, rpPosition>>
    /\ RpFrame

RpNext ==
    \/ \E items \in Collections : RpSetItems(items)
    \/ RpRender

(***************************************************************************)
(* _processNode called repeatedly on one node with the same arguments.     *)
(***************************************************************************)
\* Calls of _processNode on the node.
MaxCalls == 3

NodeKinds == {"plain", "on", "model", "repeat"}
ParentFragments == {"null", "same", "other"}

NodeOfKind(kind) == IF kind = "repeat" THEN LoopNode ELSE ElementNode

PnIdle ==
    /\ pnKind = "plain"
    /\ pnPf = "null"
    /\ pnItems = <<>>
    /\ pn = FreshNode(<<>>, FALSE)
    /\ pnCalls = 0
    /\ pnFirst = pn

\* The node before the first call: parsed, attached to a container or not.
PnParsed ==
    /\ pnKind \in NodeKinds
    /\ pnPf \in ParentFragments
    /\ pnItems \in (IF pnKind = "repeat" THEN Collections ELSE {<<>>})
    /\ \E attached \in BOOLEAN, last \in BOOLEAN :
          /\ pnPf = "same" => attached
          /\ ~attached => last
          /\ pn = FreshNode(IF ~attached THEN <<>>
                            ELSE IF last THEN <<NodeOfKind(pnKind)>>
                            ELSE <<NodeOfKind(pnKind), OtherNode>>, attached)
    /\ pnCalls = 0
    /\ pnFirst = pn

PnProcessNode ==
    /\ pnCalls < MaxCalls
    /\ pn' = ProcessNode(pn, pnKind, pnPf, pnItems)
    /\ pnCalls' = pnCalls + 1
    /\ pnFirst' = IF pnCalls = 0 THEN pn' ELSE pnFirst
    /\ UNCHANGED <<pnKind, pnPf, pnItems>>
    /\ PnFrame

PnNext == PnProcessNode

(***************************************************************************)
(* One component instance, from the return of _renderComponent on.  Its    *)
(* definition has created, mounted, beforeDestroy and destroyed callbacks, *)
(* and one function is registered for each destroy hook.  The log holds    *)
(* the callbacks and hooks run and the re-renders $update performed.       *)
(***************************************************************************)
\* Calls of $destroy() from outside the instance's own callbacks.
MaxDestroyCalls == 2
\* Calls of $update().
MaxUpdateCalls == 2
\* Times the beforeDestroy callback calls this.$destroy() itself.
MaxReenter == 1

\* _cleanupEventListenersBoundWithin(componentId): the registry entries with
\* the instance's id are removed, with their listeners.
CleanupEventListenersBoundWithin_KeepsAll(c) == c

CleanupEventListenersBoundWithin(c) == [c EXCEPT !.own = 0]

\* $update(): no effect unless mounted and not destroyed; else the instance's
\* listeners are cleaned and the template is compiled into the host again
\* (its child components are rendered as new instances, with new ids).
Update(c, tpl) ==
    IF c.destroyed \/ ~c.mounted THEN c
    ELSE LET c1 == CleanupEventListenersBoundWithin(c) IN
         [c1 EXCEPT !.own = @ + tpl.own,
                    !.other = @ + tpl.other,
                    !.content = "content",
                    !.log = Append(@, "update")]

\* _destroyComponent.  The beforeDestroy callback calls $update() when upd, and
\* calls this.$destroy() itself on its first n runs.
RECURSIVE DestroyComponent(_, _, _, _)
DestroyComponent(c, tpl, n, upd) ==
    IF c.destroyed THEN c
    ELSE
    LET c1 == [c EXCEPT !.log = @ \o <<"beforeComponentDestroy", "beforeDestroy">>]
        c2 == IF upd THEN Update(c1, tpl) ELSE c1
        c3 == IF n > 0 THEN DestroyComponent(c2, tpl, n - 1, upd) ELSE c2
        c4 == IF c3.el THEN [c3 EXCEPT !.sync = 0] ELSE c3
        c5 == [CleanupEventListenersBoundWithin(c4) EXCEPT !.destroyed = TRUE]
        c6 == IF c5.el THEN [c5 EXCEPT !.content = "empty"] ELSE c5
    IN  [c6 EXCEPT !.el = FALSE,
                   !.log = @ \o <<"destroyed", "afterComponentDestroy">>]

\* The instance when _renderComponent returns: created() has run, the template
\* is compiled into the host, the mount step is queued.
Rendered(tpl) ==
    [mounted |-> FALSE, destroyed |-> FALSE, el |-> TRUE,
     own |-> tpl.own, other |-> tpl.other, sync |-> tpl.sync,
     content |-> "content", log |-> <<"created">>]

Templates == [own : 0..2, other : 0..1, sync : 0..1, inBody : BOOLEAN]

NoCall == [op |-> "render", before |-> Rendered([own |-> 0, other |-> 0, sync |-> 0, inBody |-> TRUE])]

CompIdle ==
    /\ compTpl = [own |-> 0, other |-> 0, sync |-> 0, inBody |-> TRUE]
    /\ comp = Rendered(compTpl)
    /\ compMountPending = TRUE
    /\ compCalls = [destroy |-> 0, update |-> 0]
    /\ compLast = NoCall

CompRendered ==
    /\ compTpl \in Templates
    /\ comp = Rendered(compTpl)
    /\ compMountPending = TRUE
    /\ compCalls = [destroy |-> 0, update |-> 0]
    /\ compLast = NoCall

\* The microtask queued by _renderComponent.
CompMountMicrotask ==
    /\ compMountPending
    /\ compMountPending' = FALSE
    /\ comp' = IF ~comp.destroyed /\ compTpl.inBody
               THEN [comp EXCEPT !.mounted = TRUE, !.log = Append(@, "mounted")]
               ELSE comp
    /\ compLast' = [op |-> "mount", before |-> comp]
    /\ UNCHANGED <<compTpl, compCalls>>
    /\ CompFrame

\* A call of $update(), directly or from a reactive update callback.
CompUpdate ==
    /\ compCalls.update < MaxUpdateCalls
    /\ comp' = Update(comp, compTpl)
    /\ compCalls' = [compCalls EXCEPT !.update = @ + 1]
    /\ compLast' = [op |-> "update", before |-> comp]
    /\ UNCHANGED <<compTpl, compMountPending>>
    /\ CompFrame

\* A call of $destroy().
CompDestroy(n, upd) ==
    /\ compCalls.destroy < MaxDestroyCalls
    /\ comp' = DestroyComponent(comp, compTpl, n, upd)
    /\ compCalls' = [compCalls EXCEPT !.destroy = @ + 1]
    /\ compLast' = [op |-> "destroy", before |-> comp]
    /\ UNCHANGED <<compTpl, compMountPending>>
    /\ CompFrame

CompNext ==
    \/ CompMountMicrotask
    \/ CompUpdate
    \/ \E n \in 0..MaxReenter, upd \in BOOLEAN : CompDestroy(n, upd)

(***************************************************************************)
(* applyData.  Markup is a sequence of pieces: literal text, a {{ name }}  *)
(* text interpolation, or an element with data-text="name".  Rendering     *)
(* turns an interpolation into literal text (the braces are gone from the  *)
(* DOM) and fills a data-text element, whose attribute stays.              *)
(***************************************************************************)
\* The pieces of the longest root template.
MaxPieces == 2

NameVals == {"", "Alice", "Bob"}

Literal(text) == [t |-> "literal", v |-> text]
Mustache == [t |-> "mustache", v |-> "name"]
DataText(text) == [t |-> "dataText", v |-> text]

TemplatePieces == {Literal("Hello"), Mustache, DataText("")}
RootTemplates == UNION {[1..n -> TemplatePieces] : n \in 0..MaxPieces}

\* Text nodes with no text do not appear in innerHTML.
RECURSIVE DropEmptyText(_)
DropEmptyText(markup) ==
    IF markup = <<>> THEN <<>>
    ELSE IF Head(markup) = Literal("") THEN DropEmptyText(Tail(markup))
    ELSE <<Head(markup)>> \o DropEmptyText(Tail(markup))

\* _reRenderRoot: the content of the root after rendering the template string
\* against data whose name is value.
ReRenderRoot(templateString, value) ==
    DropEmptyText([i \in DOMAIN templateString |->
        CASE templateString[i].t = "mustache" -> Literal(value)
          [] templateString[i].t = "dataText" -> DataText(value)
          [] OTHER -> templateString[i]])

\* The template string applyData(userData) selects when called without a
\* template: templateString || root.innerHTML || _originalRootTemplate.
ApplyDataTemplate(rootInnerHTML, original) ==
    IF rootInnerHTML # <<>> THEN rootInnerHTML ELSE original

AdIdle ==
    /\ adOriginal = <<>>
    /\ adCurrent = [set |-> FALSE, tpl |-> <<>>]
    /\ adData = ""
    /\ adRoot = <<>>
    /\ adLast = "construct"

\* After the constructor: the root holds its authored markup.
AdConstructed ==
    /\ adOriginal \in RootTemplates
    /\ adCurrent = [set |-> FALSE, tpl |-> <<>>]
    /\ adData = ""
    /\ adRoot = adOriginal
    /\ adLast = "construct"

\* applyData({name: value}) with no template argument.
ApplyData(value) ==
    /\ LET tpl == ApplyDataTemplate(adRoot, adOriginal) IN
           /\ adCurrent' = [set |-> TRUE, tpl |-> tpl]
           /\ adRoot' = ReRenderRoot(tpl, value)
    /\ adData' = value
    /\ adLast' = "applyData"
    /\ UNCHANGED adOriginal
    /\ AdFrame

\* A write to the root data and the re-render it schedules.
AdWrite(value) ==
    /\ adCurrent.set
    /\ value # adData
    /\ adData' = value
    /\ adRoot' = ReRenderRoot(adCurrent.tpl, value)
    /\ adLast' = "write"
    /\ UNCHANGED <<adOriginal, adCurrent>>
    /\ AdFrame

AdNext ==
    \/ \E value \in NameVals : ApplyData(value)
    \/ \E value \in NameVals : AdWrite(value)

(***************************************************************************)
(* Global state watchers: watchState("x", cb), the function it returns,    *)
(* and the $state update callback that dispatches to _stateWatchers.  A    *)
(* watcher's callback may call the unwatch function of a watcher.          *)
(***************************************************************************)
\* Calls of watchState.
MaxWatchers == 2

StateVals == {"0", "1", "2"}
WatcherIds == 1..MaxWatchers

\* What each callback does when it runs: the watcher it unwatches, 0 for none.
CallbackPlans == [WatcherIds -> WatcherIds \cup {0}]

\* array.filter(w => w !== watcher)
FilterOut(seq, w) == SelectSeq(seq, LAMBDA x : x # w)

\* The forEach of the $state update callback over the array that was
\* _stateWatchers when the dispatch began, from position i on.  d holds the
\* current _stateWatchers, the lastValues, the unwatched set and the log of
\* invocations <<watcher, newValue, lastValue, unwatched at the time>>.
RECURSIVE DispatchFrom(_, _, _, _, _)
DispatchFrom(iterated, i, currentVal, plan, d) ==
    IF i > Len(iterated) THEN d
    ELSE
    LET w == iterated[i] IN
    IF currentVal = d.last[w]
    THEN DispatchFrom(iterated, i + 1, currentVal, plan, d)
    ELSE
    LET u == plan[w]
        called == [d EXCEPT !.log = Append(@, <<w, currentVal, d.last[w], w \in d.unwatched>>)]
        ran == IF u # 0 /\ u <= d.created
               THEN [called EXCEPT !.watchers = FilterOut(@, u),
                                   !.unwatched = @ \cup {u}]
               ELSE called
    IN  DispatchFrom(iterated, i + 1, currentVal, plan,
                     [ran EXCEPT !.last[w] = currentVal])

SwIdle ==
    /\ swValue = "0"
    /\ swWatchers = <<>>
    /\ swLastValue = [w \in WatcherIds |-> "0"]
    /\ swCreated = 0
    /\ swUnwatched = {}
    /\ swDispatch = <<>>

SwConstructed ==
    /\ swValue \in StateVals
    /\ swWatchers = <<>>
    /\ swLastValue = [w \in WatcherIds |-> swValue]
    /\ swCreated = 0
    /\ swUnwatched = {}
    /\ swDispatch = <<>>

\* watchState("x", cb)
WatchState ==
    /\ swCreated < MaxWatchers
    /\ swCreated' = swCreated + 1
    /\ swWatchers' = Append(swWatchers, swCreated + 1)
    /\ swLastValue' = [swLastValue EXCEPT ![swCreated + 1] = swValue]
    /\ UNCHANGED <<swValue, swUnwatched, swDispatch>>
    /\ SwFrame

\* The function watchState returned for w, called outside any dispatch.
Unwatch(w) ==
    /\ w <= swCreated
    /\ swWatchers' = FilterOut(swWatchers, w)
    /\ swUnwatched' = swUnwatched \cup {w}
    /\ UNCHANGED <<swValue, swLastValue, swCreated, swDispatch>>
    /\ SwFrame

\* setState("x", v): the set trap, and the dispatch when the value changed.
SetState(v, plan) ==
    /\ swValue' = v
    /\ IF v = swValue
       THEN /\ swDispatch' = <<>>
            /\ UNCHANGED <<swWatchers, swLastValue, swUnwatched>>
       ELSE LET d == DispatchFrom(swWatchers, 1, v, plan,
                        [watchers |-> swWatchers, last |-> swLastValue,
                         unwatched |-> swUnwatched, created |-> swCreated,
                         log |-> <<>>])
            IN  /\ swWatchers' = d.watchers
                /\ swLastValue' = d.last
                /\ swUnwatched' = d.unwatched
                /\ swDispatch' = d.log
    /\ UNCHANGED swCreated
    /\ SwFrame

SwNext ==
    \/ WatchState
    \/ \E w \in WatcherIds : Unwatch(w)
    \/ \E v \in StateVals, plan \in CallbackPlans : SetState(v, plan)

(***************************************************************************)
(* Props and data of one component instance, as read and written through   *)
(* its _templateContext proxy and through this.$props.  The definition     *)
(* declares the prop "title"; a data() factory, when there is one,         *)
(* returns {count: ...}.                                                   *)
(***************************************************************************)
\* Re-renders of the instance in a behaviour of the model.
MaxRenders == 3

PropVals == {"1", "2", "3"}
CtxKeys == {"title", "count"}

\* The get trap of _templateContext for a data or prop name.
ContextGet(data, props, key) ==
    IF data[key] # "absent" THEN data[key]
    ELSE IF key = "title" THEN props
    ELSE "undefined"

\* The set trap of _templateContext: the data and whether the reactive
\* container's update callback ran.  A write lands in _componentData when the
\* key is in it or the definition has a data() factory; otherwise a prop name
\* is rejected, and any other name becomes a field of the instance.
ContextSet(data, hasDataFn, key, value) ==
    IF data[key] # "absent" \/ hasDataFn
    THEN [data |-> [data EXCEPT ![key] = value], changed |-> data[key] # value]
    ELSE [data |-> data, changed |-> FALSE]

\* The update callbacks of $props and _componentData end with
\* if (_mounted) $update().
RendersAfter(renders, changed, mounted) ==
    IF changed /\ mounted THEN renders + 1 ELSE renders

CpSnapshot(op) ==
    [op |-> op, read |-> ContextGet(cpData, cpProps, "title"), renders |-> cpRenders]

CpIdle ==
    /\ cpHasDataFn = FALSE
    /\ cpProps = "1"
    /\ cpData = [k \in CtxKeys |-> "absent"]
    /\ cpMounted = FALSE
    /\ cpRenders = 0
    /\ cpLast = [op |-> "render", read |-> "1", renders |-> 0]

\* The instance when _renderComponent returns.
CpCreated ==
    /\ cpHasDataFn \in BOOLEAN
    /\ cpProps \in PropVals
    /\ cpData = [k \in CtxKeys |-> IF k = "count" /\ cpHasDataFn THEN "1" ELSE "absent"]
    /\ cpMounted = FALSE
    /\ cpRenders = 0
    /\ cpLast = [op |-> "render", read |-> cpProps, renders |-> 0]

\* The deferred mount step.
CpMount ==
    /\ ~cpMounted
    /\ cpMounted' = TRUE
    /\ cpLast' = CpSnapshot("mount")
    /\ UNCHANGED <<cpHasDataFn, cpProps, cpData, cpRenders>>
    /\ CpFrame

\* this.<key> = value inside the component.
CpContextAssign(key, value) ==
    LET r == ContextSet(cpData, cpHasDataFn, key, value) IN
    /\ cpRenders < MaxRenders
    /\ cpData' = r.data
    /\ cpRenders' = RendersAfter(cpRenders, r.changed, cpMounted)
    /\ cpLast' = CpSnapshot(IF key = "title" THEN "assignProp" ELSE "assignData")
    /\ UNCHANGED <<cpHasDataFn, cpProps, cpMounted>>
    /\ CpFrame

\* this.$props.title = value inside the component: the set trap of the
\* reactive $props container.
CpPropsAssign(value) ==
    /\ cpRenders < MaxRenders
    /\ cpProps' = value
    /\ cpRenders' = RendersAfter(cpRenders, cpProps # value, cpMounted)
    /\ cpLast' = CpSnapshot("assignProp")
    /\ UNCHANGED <<cpHasDataFn, cpData, cpMounted>>
    /\ CpFrame

\* The parent re-evaluates the host's attributes and updates the prop.
CpParentUpdate(value) ==
    /\ cpRenders < MaxRenders
    /\ cpProps' = value
    /\ cpRenders' = RendersAfter(cpRenders, cpProps # value, cpMounted)
    /\ cpLast' = CpSnapshot("parent")
    /\ UNCHANGED <<cpHasDataFn, cpData, cpMounted>>
    /\ CpFrame

CpNext ==
    \/ CpMount
    \/ \E key \in CtxKeys, value \in PropVals : CpContextAssign(key, value)
    \/ \E value \in PropVals : CpPropsAssign(value)
    \/ \E value \in PropVals : CpParentUpdate(value)

(***************************************************************************)
(* data-model on <input type="checkbox"> bound to a data path of the root  *)
(* data or of a component's data.                                          *)
(***************************************************************************)
\* Processing passes over the control.
MaxPasses == 4

\* JS values of the bound path, by their source text.
ModelVals == {"true", "false", "0", "1", "''", "'on'", "undefined"}

TypeOf(v) ==
    CASE v \in {"true", "false"} -> "boolean"
      [] v \in {"0", "1"} -> "number"
      [] v = "undefined" -> "undefined"
      [] OTHER -> "string"

\* !!v
ToBoolean(v) == v \in {"true", "1", "'on'"}

BoolVal(b) == IF b THEN "true" ELSE "false"

\* isNaN(parseFloat(v)) for the values a checkbox handler sees
ParseFloatIsNaN(v) == v \notin {"0", "1"}

\* modelUpdateHandler for a checkbox: the value written to the path.
ModelUpdateHandler(checked, originalValueAtPath) ==
    LET newValue == BoolVal(checked) IN
    IF TypeOf(originalValueAtPath) = "number" /\ ~ParseFloatIsNaN(newValue)
    THEN newValue
    ELSE IF TypeOf(originalValueAtPath) = "boolean"
    THEN BoolVal(newValue = "'true'" \/ newValue = "true")
    ELSE newValue

\* _processDataModel on the control: the control and the registry count.
ProcessDataModel_KeepsPrevious(control, registry, value) ==
    [control |-> [control EXCEPT !.checked = ToBoolean(value),
                                 !.listeners = @ + 1,
                                 !.handler = TRUE],
     registry |-> registry + 1]

ProcessDataModel(control, registry, value) ==
    LET removed == IF control.handler THEN 1 ELSE 0 IN
    [control |-> [control EXCEPT !.checked = ToBoolean(value),
                                 !.listeners = @ - removed + 1,
                                 !.handler = TRUE],
     registry |-> registry - removed + 1]

MbIdle ==
    /\ mbValue = "false"
    /\ mbControl = [checked |-> FALSE, listeners |-> 0, handler |-> FALSE]
    /\ mbRegistry = 0
    /\ mbPasses = 0
    /\ mbLast = "parse"

\* The control as parsed from the template, before any pass.
MbParsed ==
    /\ mbValue \in ModelVals
    /\ mbControl = [checked |-> FALSE, listeners |-> 0, handler |-> FALSE]
    /\ mbRegistry = 0
    /\ mbPasses = 0
    /\ mbLast = "parse"

\* A processing pass (a render) over the control.
MbProcess ==
    /\ mbPasses < MaxPasses
    /\ LET r == ProcessDataModel(mbControl, mbRegistry, mbValue) IN
           /\ mbControl' = r.control
           /\ mbRegistry' = r.registry
    /\ mbPasses' = mbPasses + 1
    /\ mbLast' = "process"
    /\ UNCHANGED mbValue
    /\ MbFrame

\* The user toggles the checkbox: the change event reaches every model
\* listener attached to the control.
MbUserChange(checked) ==
    /\ mbControl.listeners > 0
    /\ mbControl' = [mbControl EXCEPT !.checked = checked]
    /\ mbValue' = ModelUpdateHandler(checked, mbValue)
    /\ mbLast' = "change"
    /\ UNCHANGED <<mbRegistry, mbPasses>>
    /\ MbFrame

\* A programmatic write of the bound path.
MbWrite(v) ==
    /\ v # mbValue
    /\ mbValue' = v
    /\ mbLast' = "write"
    /\ UNCHANGED <<mbControl, mbRegistry, mbPasses>>
    /\ MbFrame

MbNext ==
    \/ MbProcess
    \/ \E checked \in BOOLEAN : MbUserChange(checked)
    \/ \E v \in ModelVals : MbWrite(v)

(***************************************************************************)
(* Objects with identity.  A value is an integer: 0 is undefined, a        *)
(* negative number a primitive, a positive number the identity of an       *)
(* object.  An object is plain (its own fields) or a reactive proxy (a     *)
(* target); a read through a proxy runs the get trap of _makeReactive.     *)
(***************************************************************************)
\* Objects that exist in a behaviour of the model.
MaxObjects == 6
\* Operations in a behaviour of the model.
MaxHeapOps == 3

ObjIds == 1..MaxObjects
HeapKeys == {"a", "b"}
HeapPaths == {<<"a">>, <<"b">>, <<"a", "b">>}
Primitives == {0, -1}
Roots == {1, 2}

NoFields == [k \in HeapKeys |-> 0]
FreeSlot == [kind |-> "free", target |-> 0, f |-> NoFields]
PlainObject == [kind |-> "plain", target |-> 0, f |-> NoFields]
ProxyOf(t) == [kind |-> "proxy", target |-> t, f |-> NoFields]

Allocated(h) == {i \in ObjIds : h[i].kind # "free"}

\* A new object: the heap with it, and its identity (full: no identity left).
Allocate(h, object) ==
    LET free == ObjIds \ Allocated(h) IN
    IF free = {} THEN [h |-> h, v |-> 0, full |-> TRUE]
    ELSE LET id == CHOOSE i \in free : \A j \in free : i <= j IN
         [h |-> [h EXCEPT ![id] = object], v |-> id, full |-> FALSE]

\* The get trap wraps plain objects only (not proxies, not primitives).
Wrappable(h, value) == value > 0 /\ h[value].kind = "plain"

\* handler.get of the proxy p: a wrappable value is wrapped in a new proxy,
\* which replaces it in the target; target[key] is returned.
HandlerGet_WrapsEveryRead(h, p, key) ==
    LET tgt == h[p].target
        value == h[tgt].f[key]
        inner == IF value > 0 /\ h[value].kind = "proxy" THEN h[value].target ELSE value
    IN  IF inner > 0
        THEN LET a == Allocate(h, ProxyOf(inner)) IN
             IF a.full THEN a
             ELSE [h |-> [a.h EXCEPT ![tgt].f[key] = a.v], v |-> a.v, full |-> FALSE]
        ELSE [h |-> h, v |-> value, full |-> FALSE]

HandlerGet(h, p, key) ==
    LET tgt == h[p].target
        value == h[tgt].f[key]
    IN  IF Wrappable(h, value)
        THEN LET a == Allocate(h, ProxyOf(value)) IN
             IF a.full THEN a
             ELSE [h |-> [a.h EXCEPT ![tgt].f[key] = a.v], v |-> a.v, full |-> FALSE]
        ELSE [h |-> h, v |-> value, full |-> FALSE]

\* obj[key]
GetProp(h, obj, key) ==
    IF h[obj].kind = "proxy" THEN HandlerGet(h, obj, key)
    ELSE [h |-> h, v |-> h[obj].f[key], full |-> FALSE]

SetProp_OnTheProxyItself(h, obj, key, value) ==
    [h EXCEPT ![obj].f[key] = value]

\* obj[key] = value (handler.set stores into the target)
SetProp(h, obj, key, value) ==
    LET holder == IF h[obj].kind = "proxy" THEN h[obj].target ELSE obj IN
    [h EXCEPT ![holder].f[key] = value]

\* _setValueByPath(obj, path, value)
RECURSIVE SetValueByPath(_, _, _, _)
SetValueByPath(h, obj, path, value) ==
    IF Len(path) = 1
    THEN [h |-> SetProp(h, obj, path[1], value), v |-> value, full |-> FALSE]
    ELSE LET g == GetProp(h, obj, path[1]) IN
         IF g.full THEN g
         ELSE IF g.v > 0 THEN SetValueByPath(g.h, g.v, Tail(path), value)
         ELSE LET a == Allocate(g.h, PlainObject) IN
              IF a.full THEN a
              ELSE LET g2 == GetProp(SetProp(a.h, obj, path[1], a.v), obj, path[1]) IN
                   IF g2.full THEN g2
                   ELSE SetValueByPath(g2.h, g2.v, Tail(path), value)

\* _getValueByPath(obj, path): the reduce over the keys, from acc.
RECURSIVE GetValueByPath(_, _, _)
GetValueByPath(h, acc, path) ==
    IF path = <<>> THEN [h |-> h, v |-> acc, full |-> FALSE]
    ELSE IF acc > 0
    THEN LET g == GetProp(h, acc, Head(path)) IN
         IF g.full THEN g ELSE GetValueByPath(g.h, g.v, Tail(path))
    ELSE GetValueByPath(h, 0, Tail(path))

NoHeapOp == [op |-> "none", obj |-> 0, value |-> 0, got |-> 0, again |-> 0, n |-> 0]

HpIdle ==
    /\ heap = [i \in ObjIds |-> FreeSlot]
    /\ hpLast = NoHeapOp

\* Object 1 is a plain object; object 2 is the reactive container made by
\* _makeReactive over the plain object 3.
HpStart ==
    /\ heap = [i \in ObjIds |->
                 IF i \in {1, 3} THEN PlainObject
                 ELSE IF i = 2 THEN ProxyOf(3) ELSE FreeSlot]
    /\ hpLast = NoHeapOp

\* The program creates a plain object, to be used as a value.  (Object 3 is
\* reached only through the container: it is never handed out as a value.)
HpNewObject ==
    LET a == Allocate(heap, PlainObject) IN
    /\ hpLast.n < MaxHeapOps
    /\ ~a.full
    /\ heap' = a.h
    /\ hpLast' = [NoHeapOp EXCEPT !.op = "new", !.got = a.v, !.n = hpLast.n + 1]
    /\ HpFrame

\* _setValueByPath(obj, path, value) followed by _getValueByPath(obj, path).
HpRoundTrip(obj, path, value) ==
    LET s == SetValueByPath(heap, obj, path, value)
        g == GetValueByPath(s.h, obj, path)
    IN  /\ hpLast.n < MaxHeapOps
        /\ value > 0 => value \in Allocated(heap) \ {3}
        /\ ~s.full
        /\ ~g.full
        /\ heap' = g.h
        /\ hpLast' = [NoHeapOp EXCEPT !.op = "roundTrip", !.obj = obj,
                                      !.value = value, !.got = g.v,
                                      !.n = hpLast.n + 1]
        /\ HpFrame

\* proxy[key] read twice in a row.
HpReadTwice(p, key) ==
    LET g1 == GetProp(heap, p, key)
        g2 == GetProp(g1.h, p, key)
    IN  /\ hpLast.n < MaxHeapOps
        /\ heap[p].kind = "proxy"
        /\ ~g1.full
        /\ ~g2.full
        /\ heap' = g2.h
        /\ hpLast' = [NoHeapOp EXCEPT !.op = "readTwice", !.obj = p,
                                      !.got = g1.v, !.again = g2.v,
                                      !.n = hpLast.n + 1]
        /\ HpFrame

HpNext ==
    \/ HpNewObject
    \/ \E obj \in Roots, path \in HeapPaths, value \in Primitives \cup ObjIds :
          HpRoundTrip(obj, path, value)
    \/ \E p \in ObjIds, key \in HeapKeys : HpReadTwice(p, key)

(***************************************************************************)
(* _isValidExpression and _buildScopedEvaluator.  An expression is a       *)
(* sequence of tokens (names, "(", "[", a blank); the six patterns of the  *)
(* denylist are matched as the regular expressions match: anywhere in the  *)
(* text, ignoring case, with any number of blanks before "(" or "[".       *)
(***************************************************************************)
\* Tokens in an expression.
MaxExprLen == 3
\* Invocations of one evaluator.
MaxInvocations == 2

ExprTokens == {"Function", "eval", "EVAL", "setTimeout", "setInterval",
               "__proto__", "constructor", "x", "(", "[", " "}
Expressions == UNION {[1..n -> ExprTokens] : n \in 0..MaxExprLen}
Scopes == {{}, {"x"}}
GlobalNames == {"Function", "eval", "setTimeout", "setInterval"}

\* the i flag of the patterns
ToLowerCase(t) ==
    IF t = "EVAL" THEN "eval"
    ELSE IF t = "Function" THEN "function"
    ELSE IF t = "setTimeout" THEN "settimeout"
    ELSE IF t = "setInterval" THEN "setinterval"
    ELSE t

\* /name\s*open/i.test(e)
TestNameThenOpen(e, name, open) ==
    \E i, j \in 1..Len(e) :
        /\ i < j
        /\ ToLowerCase(e[i]) = name
        /\ e[j] = open
        /\ \A k \in (i + 1)..(j - 1) : e[k] = " "

\* /name/i.test(e)
TestName(e, name) == \E i \in 1..Len(e) : ToLowerCase(e[i]) = name

IsValidExpression_NoConstructorPattern(e) ==
    ~ \/ TestNameThenOpen(e, "function", "(")
      \/ TestNameThenOpen(e, "eval", "(")
      \/ TestNameThenOpen(e, "settimeout", "(")
      \/ TestNameThenOpen(e, "setinterval", "(")
      \/ TestName(e, "__proto__")

IsValidExpression(e) ==
    ~ \/ TestNameThenOpen(e, "function", "(")
      \/ TestNameThenOpen(e, "eval", "(")
      \/ TestNameThenOpen(e, "settimeout", "(")
      \/ TestNameThenOpen(e, "setinterval", "(")
      \/ TestName(e, "__proto__")
      \/ TestNameThenOpen(e, "constructor", "[")

\* expression.trim()
Trim(e) == SelectSeq(e, LAMBDA t : t # " ")

\* new Function(...keys, `return (${expression});`) succeeds: of the token
\* sequences here only a single name (blanks around it) is an expression.
Compiles(e) == Len(Trim(e)) = 1 /\ Trim(e)[1] \notin {"(", "["}

\* fn(...values): a name in scope is its value, a global name the global,
\* any other name a ReferenceError (rethrown under strictExpressions).
RunCompiled(e, scope, strict) ==
    LET name == Trim(e)[1] IN
    IF name \in scope THEN "value"
    ELSE IF name \in GlobalNames THEN "global"
    ELSE IF strict THEN "throws" ELSE "undefined"

\* _buildScopedEvaluator(expression, ...): the kind of evaluator returned.
BuildScopedEvaluator(e) ==
    IF Trim(e) = <<>> THEN "empty"
    ELSE IF ~IsValidExpression(e) THEN "blocked"
    ELSE IF Compiles(e) THEN "compiled"
    ELSE "compileError"

EvIdle ==
    /\ evExpr = <<>>
    /\ evScope = {}
    /\ evStrict = FALSE
    /\ evKind = "none"
    /\ evCompiles = 0
    /\ evRuns = 0
    /\ evCalls = 0
    /\ evResult = "none"

EvConstructed ==
    /\ evExpr = <<>>
    /\ evScope = {}
    /\ evStrict \in BOOLEAN
    /\ evKind = "none"
    /\ evCompiles = 0
    /\ evRuns = 0
    /\ evCalls = 0
    /\ evResult = "none"

\* An evaluator is built for an expression in a scope.
EvBuild(e, scope) ==
    /\ evKind = "none"
    /\ evExpr' = e
    /\ evScope' = scope
    /\ evKind' = BuildScopedEvaluator(e)
    /\ evCompiles' = IF Trim(e) # <<>> /\ IsValidExpression(e) THEN 1 ELSE 0
    /\ UNCHANGED <<evStrict, evRuns, evCalls, evResult>>
    /\ EvFrame

\* The evaluator is invoked.
EvInvoke ==
    /\ evKind # "none"
    /\ evCalls < MaxInvocations
    /\ evCalls' = evCalls + 1
    /\ evRuns' = IF evKind = "compiled" THEN evRuns + 1 ELSE evRuns
    /\ evResult' = IF evKind = "compiled"
                   THEN RunCompiled(evExpr, evScope, evStrict)
                   ELSE "undefined"
    /\ UNCHANGED <<evExpr, evScope, evStrict, evKind, evCompiles>>
    /\ EvFrame

EvNext ==
    \/ \E e \in Expressions, scope \in Scopes : EvBuild(e, scope)
    \/ EvInvoke

(***************************************************************************)
(* An element with data-on:<name>="handler" attributes goes through        *)
(* _processNode.  A registered component tag is handed to _renderComponent *)
(* and _processNode returns; any other element reaches the attribute       *)
(* sweep, which adds one listener per data-on: attribute.  $emit           *)
(* dispatches a bubbling CustomEvent on the instance's host element.       *)
(***************************************************************************)
\* Events dispatched per name in a behaviour of the model.
MaxEmits == 2

EventNames == {"clicked", "closed"}

\* The props scan of _renderComponent: of the host's attributes it takes
\* data-model, ':' / data-bind: and declared props; a data-on: attribute
\* falls in the last branch and is skipped (continue).  An instance exists
\* afterwards.
RenderComponent(host) == [host EXCEPT !.instance = TRUE]

\* The attribute sweep of _processNode: a listener for each data-on: name
\* that has none yet.
AttributeSweep(host) == [host EXCEPT !.listeners = @ \cup host.on]

\* _processNode(element)
EtProcessNodeResult(host) ==
    IF host.component THEN RenderComponent(host) ELSE AttributeSweep(host)

EtIdle ==
    /\ etHost = [component |-> FALSE, on |-> {}, listeners |-> {}, instance |-> FALSE]
    /\ etEvents = [n \in EventNames |-> 0]
    /\ etHandled = [n \in EventNames |-> 0]

\* The element as parsed from the template, before any pass.
EtParsed ==
    /\ etHost \in [component : BOOLEAN, on : SUBSET EventNames,
                    listeners : {{}}, instance : {FALSE}]
    /\ etEvents = [n \in EventNames |-> 0]
    /\ etHandled = [n \in EventNames |-> 0]

\* A processing pass over the element.
EtProcessNode ==
    /\ etHost' = EtProcessNodeResult(etHost)
    /\ UNCHANGED <<etEvents, etHandled>>
    /\ EtFrame

\* dispatchEvent on the element: its listeners for the name run once each.
EtDispatched(name) ==
    /\ etEvents[name] < MaxEmits
    /\ etEvents' = [etEvents EXCEPT ![name] = @ + 1]
    /\ etHandled' = IF name \in etHost.listeners
                    THEN [etHandled EXCEPT ![name] = @ + 1]
                    ELSE etHandled
    /\ UNCHANGED etHost
    /\ EtFrame

\* this.$emit(name, payload) in the component instance.
EtEmit(name) ==
    /\ etHost.instance
    /\ EtDispatched(name)

\* An event of that name dispatched on an element that is no component.
EtDomEvent(name) ==
    /\ ~etHost.component
    /\ EtDispatched(name)

EtNext ==
    \/ EtProcessNode
    \/ \E name \in EventNames : EtEmit(name)
    \/ \E name \in EventNames : EtDomEvent(name)

(***************************************************************************)
(* Slot content.  _captureAndProcessSlots clones each child of the host,   *)
(* processes the clone in the parent's scope (which adds the data-on:      *)
(* listeners to it) and keeps it in $slots; _compileComponentTemplate puts *)
(* n.cloneNode(true) of each kept node before the <slot> element.          *)
(***************************************************************************)
\* Elements in the slot content.
MaxSlotNodes == 2
\* Bound events fired per name.
MaxFires == 2

SlotElement(on) == [on |-> on, listeners |-> {}]
SlotContents ==
    UNION {[1..n -> {SlotElement(on) : on \in SUBSET EventNames}] : n \in 1..MaxSlotNodes}

\* node.cloneNode(true): attributes and children are copied; listeners added
\* with addEventListener are not.
CloneNode(node) == [node EXCEPT !.listeners = {}]

\* _captureAndProcessSlots(hostElement, ...): each child is cloned and the
\* clone goes through _processNode in the parent's scope.
CaptureAndProcessSlots(content) ==
    [i \in DOMAIN content |-> AttributeSweep(CloneNode(content[i]))]

\* The slot replacement of _compileComponentTemplate.
ProjectSlots(slots) == [i \in DOMAIN slots |-> CloneNode(slots[i])]

SlIdle ==
    /\ slContent = <<>>
    /\ slSlots = <<>>
    /\ slProjected = <<>>
    /\ slFired = [n \in EventNames |-> 0]
    /\ slHandled = [n \in EventNames |-> 0]

\* The component tag as parsed, before _renderComponent.
SlParsed ==
    /\ slContent \in SlotContents
    /\ slSlots = <<>>
    /\ slProjected = <<>>
    /\ slFired = [n \in EventNames |-> 0]
    /\ slHandled = [n \in EventNames |-> 0]

\* _renderComponent for a new instance: the slots are captured, the template
\* is compiled into the emptied host.
SlRenderComponent ==
    /\ slContent # <<>>
    /\ slSlots' = CaptureAndProcessSlots(slContent)
    /\ slProjected' = ProjectSlots(slSlots')
    /\ slContent' = <<>>
    /\ UNCHANGED <<slFired, slHandled>>
    /\ SlFrame

\* $update(): the template is compiled again with the kept $slots.
SlUpdate ==
    /\ slSlots # <<>>
    /\ slProjected' = ProjectSlots(slSlots)
    /\ UNCHANGED <<slContent, slSlots, slFired, slHandled>>
    /\ SlFrame

\* The event bound by data-on:name is fired on the projected element i.
SlFire(i, name) ==
    /\ i \in DOMAIN slProjected
    /\ name \in slProjected[i].on
    /\ slFired[name] < MaxFires
    /\ slFired' = [slFired EXCEPT ![name] = @ + 1]
    /\ slHandled' = IF name \in slProjected[i].listeners
                    THEN [slHandled EXCEPT ![name] = @ + 1]
                    ELSE slHandled
    /\ UNCHANGED <<slContent, slSlots, slProjected>>
    /\ SlFrame

SlNext ==
    \/ SlRenderComponent
    \/ SlUpdate
    \/ \E i \in 1..MaxSlotNodes, name \in EventNames : SlFire(i, name)

(***************************************************************************)
(* data-safe-html.  Text is a sequence of characters.  _processNode sets   *)
(* innerHTML to _sanitizeHTML of the interpolation of "{{{expr}}}", the    *)
(* raw form, which _interpolateString answers with the placeholder unless  *)
(* allowRawHTML is set.                                                    *)
(***************************************************************************)
\* Characters in the value of the expression.
MaxTextLen == 2

TextChars == {"a", "<", "&"}
Texts == UNION {[1..n -> TextChars] : n \in 0..MaxTextLen}
NoValue == [defined |-> FALSE, text |-> <<>>]
SafeHtmlValues == {NoValue} \cup {[defined |-> TRUE, text |-> t] : t \in Texts}
Placeholders == {<<>>, <<"-">>}

\* The escaping of one character by textContent -> innerHTML.
EscapeChar(c) ==
    IF c = "<" THEN <<"&", "l", "t", ";">>
    ELSE IF c = "&" THEN <<"&", "a", "m", "p", ";">>
    ELSE <<c>>

\* _sanitizeHTML(input)
RECURSIVE SanitizeHTML(_)
SanitizeHTML(input) ==
    IF input = <<>> THEN <<>>
    ELSE EscapeChar(Head(input)) \o SanitizeHTML(Tail(input))

\* _interpolateString("{{{expr}}}", ...): the raw branch.
InterpolateRaw(value, options) ==
    IF ~options.allowRawHTML THEN options.missingValuePlaceholder
    ELSE IF value.defined THEN value.text ELSE <<>>

\* The data-safe-html branch of _processNode: the new innerHTML.
SafeHtml(value, options) == SanitizeHTML(InterpolateRaw(value, options))

ShIdle ==
    /\ shOptions = [allowRawHTML |-> FALSE, missingValuePlaceholder |-> <<>>]
    /\ shValue = NoValue
    /\ shHtml = [processed |-> FALSE, html |-> <<>>]

\* The engine as constructed with its options, the element not yet processed.
ShConstructed ==
    /\ shOptions \in [allowRawHTML : BOOLEAN, missingValuePlaceholder : Placeholders]
    /\ shValue \in SafeHtmlValues
    /\ shHtml = [processed |-> FALSE, html |-> <<>>]

\* A write of the data, followed by the render pass it schedules.
ShSetValue(value) ==
    /\ shValue' = value
    /\ shHtml' = [processed |-> TRUE, html |-> SafeHtml(value, shOptions)]
    /\ UNCHANGED shOptions
    /\ ShFrame

\* A processing pass over the element.
ShProcessNode ==
    /\ shHtml' = [processed |-> TRUE, html |-> SafeHtml(shValue, shOptions)]
    /\ UNCHANGED <<shOptions, shValue>>
    /\ ShFrame

ShNext ==
    \/ \E value \in SafeHtmlValues : ShSetValue(value)
    \/ ShProcessNode

(***************************************************************************)
(* Computed properties.  Computed property 1 returns the inputs it reads   *)
(* (a data key and a $state key); computed property k > 1 returns computed *)
(* property k - 1, read through _templateContext.  The context recomputes  *)
(* a computed property on read only while its isFresh flag is false, and   *)
(* _updateComputedProperties sets the flag and nothing clears it.          *)
(***************************************************************************)
\* Computed properties of the component, each reading the one before it.
MaxChain == 3

InputVals == {0, 1}
Inputs == [x : InputVals, s : InputVals]
NotComputed == [x |-> -1, s |-> -1]
ComputedKeys == 1..MaxChain
DefinitionOrders ==
    {o \in [ComputedKeys -> ComputedKeys] : \A k \in ComputedKeys : \E i \in ComputedKeys : o[i] = k}

\* _updateComputedProperties(instance, key): the getter of key runs; what it
\* reads through the context is the cache, or a recomputation when not fresh.
RECURSIVE ComputeKey(_, _, _)
ComputeKey(st, key, in) ==
    LET st1 == IF key > 1 /\ ~st.fresh[key - 1] THEN ComputeKey(st, key - 1, in) ELSE st
        newVal == IF key = 1 THEN in ELSE st1.cache[key - 1]
    IN  [cache |-> [st1.cache EXCEPT ![key] = newVal],
         fresh |-> [st1.fresh EXCEPT ![key] = TRUE]]

\* _updateComputedProperties(instance): the keys in definition order, from
\* the i-th on.
RECURSIVE UpdateFrom(_, _, _, _)
UpdateFrom(st, order, i, in) ==
    IF i > MaxChain THEN st
    ELSE UpdateFrom(ComputeKey(st, order[i], in), order, i + 1, in)

UpdateComputedProperties(st, order, in) == UpdateFrom(st, order, 1, in)

NoCompile == [op |-> "render", cache |-> [k \in ComputedKeys |-> NotComputed], inputs |-> NotComputed]

CmIdle ==
    /\ cmOrder = [k \in ComputedKeys |-> k]
    /\ cmInputs = [x |-> 0, s |-> 0]
    /\ cmComputed = [cache |-> [k \in ComputedKeys |-> NotComputed],
                     fresh |-> [k \in ComputedKeys |-> FALSE]]
    /\ cmMounted = FALSE
    /\ cmLast = NoCompile

\* The instance when _renderComponent returns: the watchers were created
\* not fresh and _updateComputedProperties has run once.
CmRendered ==
    /\ cmOrder \in DefinitionOrders
    /\ cmInputs \in Inputs
    /\ cmComputed = UpdateComputedProperties(
                        [cache |-> [k \in ComputedKeys |-> NotComputed],
                         fresh |-> [k \in ComputedKeys |-> FALSE]], cmOrder, cmInputs)
    /\ cmMounted = FALSE
    /\ cmLast = NoCompile

\* The microtask queued by _renderComponent.
CmMount ==
    /\ ~cmMounted
    /\ cmMounted' = TRUE
    /\ cmLast' = [NoCompile EXCEPT !.op = "mount"]
    /\ UNCHANGED <<cmOrder, cmInputs, cmComputed>>
    /\ CmFrame

\* $update() of a mounted instance: the computed properties are updated and
\* the template is compiled from the result.
CmUpdate ==
    /\ cmMounted
    /\ cmComputed' = UpdateComputedProperties(cmComputed, cmOrder, cmInputs)
    /\ cmLast' = [op |-> "update", cache |-> cmComputed'.cache, inputs |-> cmInputs]
    /\ UNCHANGED <<cmOrder, cmInputs, cmMounted>>
    /\ CmFrame

\* this.x = v with a different v: the update callback of _componentData
\* updates the computed properties, then calls $update() when mounted.
CmDataWrite(v) ==
    LET in == [cmInputs EXCEPT !.x = v]
        st1 == UpdateComputedProperties(cmComputed, cmOrder, in)
        st2 == IF cmMounted THEN UpdateComputedProperties(st1, cmOrder, in) ELSE st1
    IN  /\ v # cmInputs.x
        /\ cmInputs' = in
        /\ cmComputed' = st2
        /\ cmLast' = IF cmMounted
                     THEN [op |-> "update", cache |-> st2.cache, inputs |-> in]
                     ELSE [NoCompile EXCEPT !.op = "write"]
        /\ UNCHANGED <<cmOrder, cmMounted>>
        /\ CmFrame

\* A change of the $state key: _updateComponentsUsingGlobalStateOrGlobalData
\* calls $update() of the mounted instance.
CmStateWrite(v) ==
    LET in == [cmInputs EXCEPT !.s = v]
        st1 == IF cmMounted THEN UpdateComputedProperties(cmComputed, cmOrder, in) ELSE cmComputed
    IN  /\ v # cmInputs.s
        /\ cmInputs' = in
        /\ cmComputed' = st1
        /\ cmLast' = IF cmMounted
                     THEN [op |-> "update", cache |-> st1.cache, inputs |-> in]
                     ELSE [NoCompile EXCEPT !.op = "write"]
        /\ UNCHANGED <<cmOrder, cmMounted>>
        /\ CmFrame

CmNext ==
    \/ CmMount
    \/ CmUpdate
    \/ \E v \in InputVals : CmDataWrite(v)
    \/ \E v \in InputVals : CmStateWrite(v)

(***************************************************************************)
(* Component instances and the four ways a host leaves the rendered tree:  *)
(* _reRenderRoot, the parent's $update, _processIfDirective hiding an      *)
(* ancestor, _processRepeatDirective removing a stale clone.               *)
(***************************************************************************)
\* Component instances created in a behaviour of the model.
MaxInstances == 3

InstanceIds == 1..MaxInstances
\* Where a host stands: directly in the root template, in the template of a
\* parent component, under an element with data-if, in a clone of a loop.
HostPlaces == {"root", "component", "if", "loop"}
NoInstance == [place |-> "none", inTree |-> FALSE, destroyed |-> FALSE, callbacks |-> <<>>]

\* _destroyComponent(instance), not re-entered.
RmDestroyComponent(inst) ==
    IF inst.destroyed THEN inst
    ELSE [inst EXCEPT !.destroyed = TRUE,
                      !.callbacks = @ \o <<"beforeDestroy", "destroyed">>]

RmIdle == rmInst = [i \in InstanceIds |-> NoInstance]

RmConstructed == rmInst = [i \in InstanceIds |-> NoInstance]

\* _renderComponent for a new host at a place of the tree.
RmRenderComponent(i, place) ==
    /\ rmInst[i].place = "none"
    /\ \A j \in InstanceIds : j < i => rmInst[j].place # "none"
    /\ rmInst' = [rmInst EXCEPT ![i] = [NoInstance EXCEPT !.place = place, !.inTree = TRUE]]
    /\ RmFrame

\* _reRenderRoot: every host with data-spx-id inside the root is destroyed,
\* then the root's content is replaced.
RmReRenderRoot ==
    /\ \E i \in InstanceIds : rmInst[i].inTree
    /\ rmInst' = [i \in InstanceIds |->
                    IF rmInst[i].inTree
                    THEN [RmDestroyComponent(rmInst[i]) EXCEPT !.inTree = FALSE]
                    ELSE rmInst[i]]
    /\ RmFrame

\* $update() of the parent: its listeners are cleaned by component id and
\* $el.innerHTML = '' drops the old content, the child hosts with it.
RmParentUpdate ==
    /\ \E i \in InstanceIds : rmInst[i].inTree /\ rmInst[i].place = "component"
    /\ rmInst' = [i \in InstanceIds |->
                    IF rmInst[i].inTree /\ rmInst[i].place = "component"
                    THEN [rmInst[i] EXCEPT !.inTree = FALSE]
                    ELSE rmInst[i]]
    /\ RmFrame

\* The hide branch of _processIfDirective: listeners bound within the element
\* are cleaned, the element is replaced by its placeholder.
RmIfHide ==
    /\ \E i \in InstanceIds : rmInst[i].inTree /\ rmInst[i].place = "if"
    /\ rmInst' = [i \in InstanceIds |->
                    IF rmInst[i].inTree /\ rmInst[i].place = "if"
                    THEN [rmInst[i] EXCEPT !.inTree = FALSE]
                    ELSE rmInst[i]]
    /\ RmFrame

\* _processRepeatDirective: listeners bound within a previous clone are
\* cleaned and the clone is removed.
RmRepeatRemove ==
    /\ \E i \in InstanceIds : rmInst[i].inTree /\ rmInst[i].place = "loop"
    /\ rmInst' = [i \in InstanceIds |->
                    IF rmInst[i].inTree /\ rmInst[i].place = "loop"
                    THEN [rmInst[i] EXCEPT !.inTree = FALSE]
                    ELSE rmInst[i]]
    /\ RmFrame

RmNext ==
    \/ \E i \in InstanceIds, place \in HostPlaces : RmRenderComponent(i, place)
    \/ RmReRenderRoot
    \/ RmParentUpdate
    \/ RmIfHide
    \/ RmRepeatRemove

(***************************************************************************)
(* Component watchers.  The instance has the data key user (an object with *)
(* the field name), the prop title, the computed property double (computed *)
(* from user.name) and reads $state.n.  $watch(path, cb) records the value *)
(* resolved at path; the update callbacks of _componentData and $props and *)
(* _updateComputedProperties are the only code that reads _watchers.       *)
(***************************************************************************)
\* Watchers registered on the instance.
MaxCompWatchers == 2

WatchVals == {0, 1}
WatchPaths == {"user", "user.name", "title", "double", "$state.n"}

\* resolveWatchedValue / _getValueByPath(context, path)
ResolveWatched(path, vals, double) ==
    IF path = "user" THEN <<"name", vals.user>>
    ELSE IF path = "user.name" THEN <<vals.user>>
    ELSE IF path = "title" THEN <<vals.title>>
    ELSE IF path = "double" THEN <<double>>
    ELSE <<vals.n>>

\* w.path === key || w.path.startsWith(key + '.')
WatcherMatches(path, key) ==
    \/ path = key
    \/ key = "user" /\ path = "user.name"

\* The watcher part of _updateComputedProperties when double changes to
\* newVal: each watcher with path === 'double' is called inside try/catch
\* and its oldValue is set.
ComputedWatchers(ws, newVal) ==
    [i \in DOMAIN ws |->
        IF ws[i].path = "double" THEN [ws[i] EXCEPT !.old = <<newVal>>] ELSE ws[i]]

\* _watchers.forEach of the _componentData callback from watcher i on: a
\* matching watcher whose resolved value differs is called and its oldValue
\* set; a callback that throws ends the forEach and the whole callback.
RECURSIVE DataWatchers(_, _, _, _, _, _)
DataWatchers(ws, i, key, vals, double, ran) ==
    IF i > Len(ws) THEN [ws |-> ws, ran |-> ran, thrown |-> FALSE]
    ELSE LET w == ws[i]
             cur == ResolveWatched(w.path, vals, double)
         IN  IF WatcherMatches(w.path, key) /\ cur # w.old
             THEN IF w.throws
                  THEN [ws |-> ws, ran |-> ran \cup {i}, thrown |-> TRUE]
                  ELSE DataWatchers([ws EXCEPT ![i].old = cur], i + 1, key, vals,
                                    double, ran \cup {i})
             ELSE DataWatchers(ws, i + 1, key, vals, double, ran)

NoChange == [op |-> "none", key |-> "", before |-> <<>>, ran |-> {},
             defRan |-> FALSE, thrown |-> FALSE, rendered |-> FALSE]

CwIdle ==
    /\ cwVals = [user |-> 0, title |-> 0, n |-> 0]
    /\ cwDouble = 0
    /\ cwWatchers = <<>>
    /\ cwDefWatch = "none"
    /\ cwLast = NoChange

\* A mounted instance with no $watch watcher yet.
CwMounted ==
    /\ cwVals \in [user : WatchVals, title : WatchVals, n : WatchVals]
    /\ cwDouble = cwVals.user
    /\ cwWatchers = <<>>
    /\ cwDefWatch \in {"none", "ok", "throws"}
    /\ cwLast = NoChange

\* this.$watch(path, cb)
CwWatch(path, throws) ==
    /\ Len(cwWatchers) < MaxCompWatchers
    /\ cwWatchers' = Append(cwWatchers,
                            [path |-> path,
                             old |-> ResolveWatched(path, cwVals, cwDouble),
                             throws |-> throws])
    /\ cwLast' = [NoChange EXCEPT !.op = "watch"]
    /\ UNCHANGED <<cwVals, cwDouble, cwDefWatch>>
    /\ CwFrame

\* this.user.name = v (or this.user = {name: v}) with a different v: the
\* update callback of _componentData with key 'user'.
CwDataWrite(v) ==
    LET vals == [cwVals EXCEPT !.user = v]
        ws1 == ComputedWatchers(cwWatchers, v)
        computedRan == {i \in DOMAIN cwWatchers : cwWatchers[i].path = "double"}
        d == DataWatchers(ws1, 1, "user", vals, v, computedRan)
        defThrows == ~d.thrown /\ cwDefWatch = "throws"
    IN  /\ v # cwVals.user
        /\ cwVals' = vals
        /\ cwDouble' = v
        /\ cwWatchers' = d.ws
        /\ cwLast' = [op |-> "data", key |-> "user", before |-> cwWatchers,
                      ran |-> d.ran,
                      defRan |-> ~d.thrown /\ cwDefWatch # "none",
                      thrown |-> d.thrown \/ defThrows,
                      rendered |-> ~d.thrown /\ ~defThrows]
        /\ UNCHANGED cwDefWatch
        /\ CwFrame

\* The parent passes a different title: the update callback of $props.
CwPropWrite(v) ==
    /\ v # cwVals.title
    /\ cwVals' = [cwVals EXCEPT !.title = v]
    /\ cwLast' = [op |-> "prop", key |-> "title", before |-> cwWatchers,
                  ran |-> {},
                  defRan |-> cwDefWatch # "none",
                  thrown |-> cwDefWatch = "throws",
                  rendered |-> cwDefWatch # "throws"]
    /\ UNCHANGED <<cwDouble, cwWatchers, cwDefWatch>>
    /\ CwFrame

\* setState('n', v) with a different v: the update callback of $state runs
\* the engine's _stateWatchers and $update() of the components using $state.
CwStateWrite(v) ==
    /\ v # cwVals.n
    /\ cwVals' = [cwVals EXCEPT !.n = v]
    /\ cwLast' = [op |-> "state", key |-> "n", before |-> cwWatchers,
                  ran |-> {}, defRan |-> FALSE, thrown |-> FALSE, rendered |-> TRUE]
    /\ UNCHANGED <<cwDouble, cwWatchers, cwDefWatch>>
    /\ CwFrame

CwNext ==
    \/ \E path \in WatchPaths, throws \in BOOLEAN : CwWatch(path, throws)
    \/ \E v \in WatchVals : CwDataWrite(v)
    \/ \E v \in WatchVals : CwPropWrite(v)
    \/ \E v \in WatchVals : CwStateWrite(v)

(***************************************************************************)
(* Two component hosts, "inner" inside the rendered content of "outer".    *)
(* A host with a .sync or data-model binding has a listener for the update *)
(* event on it, which writes event.detail to the bound parent path.  $emit *)
(* dispatches a CustomEvent with bubbles: true on the emitter's host.      *)
(***************************************************************************)
\* Values emitted.
MaxSyncVal == 2

SyncHosts == {"inner", "outer"}
SyncEvents == {"update:value", "update:title"}
SyncVals == 0..MaxSyncVal

\* The hosts an event dispatched on h reaches: h and the hosts around it.
ReachedBy(h) == IF h = "inner" THEN {"inner", "outer"} ELSE {"outer"}

\* dispatchEvent(new CustomEvent(event, {detail, bubbles: true})) on the
\* host h: the sync listener of every reached host that listens for the
\* event writes the detail to its bound path.
DispatchSync(bound, listens, h, event, detail) ==
    [g \in SyncHosts |->
        IF g \in ReachedBy(h) /\ listens[g] = event THEN detail ELSE bound[g]]

NoEmit == [host |-> "none", event |-> "none", detail |-> 0,
           before |-> [g \in SyncHosts |-> 0]]

SyIdle ==
    /\ syListens = [g \in SyncHosts |-> "none"]
    /\ syBound = [g \in SyncHosts |-> 0]
    /\ syLast = NoEmit

\* Both instances rendered, their sync listeners added.
SyRendered ==
    /\ syListens \in [SyncHosts -> SyncEvents \cup {"none"}]
    /\ syBound = [g \in SyncHosts |-> 0]
    /\ syLast = NoEmit

\* this.$emit(event, detail) in the instance of host h.
SyEmit(h, event, detail) ==
    /\ syBound' = DispatchSync(syBound, syListens, h, event, detail)
    /\ syLast' = [host |-> h, event |-> event, detail |-> detail, before |-> syBound]
    /\ UNCHANGED syListens
    /\ SyFrame

SyNext ==
    \E h \in SyncHosts, event \in SyncEvents, detail \in SyncVals : SyEmit(h, event, detail)

(***************************************************************************)
(* _createEventHandler.  The handler expression is matched against the   *)
(* pattern "a name or dotted path, then optionally an argument list in     *)
(* parentheses" and split into the name and the argument string;           *)
(* the evaluator is built for the name alone, and each argument gets its   *)
(* own evaluator when the event fires.                                     *)
(***************************************************************************)
\* Events fired on the element.
MaxEventFires == 2

HandlerNames == {"eval", "setTimeout", "setInterval", "Function", "__proto__",
                 "constructor", "x"}
\* name, name(x), name[x]
HandlerForms == {"bare", "call", "index"}
Handlers == [name : HandlerNames, form : HandlerForms]

\* The text of the attribute, as tokens.
HandlerText(h) ==
    IF h.form = "bare" THEN <<h.name>>
    ELSE IF h.form = "call" THEN <<h.name, "(", "x", ")">>
    ELSE <<h.name, "[", "x", "]">>

\* handlerExpression.match(...): a name, alone or followed by (arguments).
HandlerMatch(h) == h.form \in {"bare", "call"}

\* _createEventHandler: null, or a listener whose getHandlerFn is the
\* evaluator of match[1], the name.
CreateEventHandler(h) ==
    IF ~HandlerMatch(h) THEN "null" ELSE "listener"

\* The listener on an event: getHandlerFn() is called, then the result, if
\* it is a function, with the resolved arguments.
HandleEvent(h, options) ==
    LET kind == BuildScopedEvaluator(<<h.name>>)
        got == IF kind = "compiled"
               THEN RunCompiled(<<h.name>>, options.scope, options.strict)
               ELSE "undefined"
    IN  [resolved |-> got,
         invoked |-> IF got \in {"value", "global"} THEN h.name ELSE "none"]

NoEvent == [resolved |-> "none", invoked |-> "none"]

HdIdle ==
    /\ hdHandler = [name |-> "x", form |-> "bare"]
    /\ hdOptions = [scope |-> {}, strict |-> FALSE]
    /\ hdBound = "none"
    /\ hdFires = 0
    /\ hdLast = NoEvent

\* The element as parsed, before the attribute sweep.
HdParsed ==
    /\ hdHandler \in Handlers
    /\ hdOptions \in [scope : Scopes, strict : BOOLEAN]
    /\ hdBound = "none"
    /\ hdFires = 0
    /\ hdLast = NoEvent

\* The attribute sweep of _processNode for the data-on: attribute.
HdProcessNode ==
    /\ hdBound = "none"
    /\ hdBound' = CreateEventHandler(hdHandler)
    /\ UNCHANGED <<hdHandler, hdOptions, hdFires, hdLast>>
    /\ HdFrame

\* The event fires on the element.
HdFire ==
    /\ hdBound # "none"
    /\ hdFires < MaxEventFires
    /\ hdFires' = hdFires + 1
    /\ hdLast' = IF hdBound = "listener" THEN HandleEvent(hdHandler, hdOptions) ELSE NoEvent
    /\ UNCHANGED <<hdHandler, hdOptions, hdBound>>
    /\ HdFrame

HdNext ==
    \/ HdProcessNode
    \/ HdFire

(***************************************************************************)
(* setState(object): one write of $state per key, in the object's key      *)
(* order.  Each write runs the set trap and, when the value changed, the   *)
(* $state update callback, which calls the matching watchers before the    *)
(* write returns.  A watcher's callback may itself write to $state         *)
(* ("if $state[key] !== val then $state[key] = val").                      *)
(***************************************************************************)
\* Calls of watchState.
MaxStateWatchers == 2

StateKeys == {"a", "b"}
StateValues == {"0", "1"}
\* The objects passed to setState: one or two keys, in insertion order.
StateObjects ==
    {<<[key |-> k, val |-> v]>> : k \in StateKeys, v \in StateValues}
    \cup {o \in {<<[key |-> k1, val |-> v1], [key |-> k2, val |-> v2]>> :
                    k1 \in StateKeys, k2 \in StateKeys, v1 \in StateValues, v2 \in StateValues} :
            o[1].key # o[2].key}
\* The callbacks passed to watchState: one that only observes, or one that
\* writes val to key.  At most one registered callback writes.
Observes == [writes |-> FALSE, key |-> "a", val |-> "0"]
StateCallbacks == {Observes} \cup [writes : {TRUE}, key : StateKeys, val : StateValues]

\* $state[key] = v (SbSet: the set trap) and the $state update callback, its
\* forEach from watcher i on (SbDispatch).  st holds $state, the lastValues
\* and the log of invocations.
RECURSIVE SbSet(_, _, _)
RECURSIVE SbDispatch(_, _, _)
SbSet(st, key, v) ==
    IF st.vals[key] = v THEN st
    ELSE SbDispatch([st EXCEPT !.vals[key] = v], key, 1)

SbDispatch(st, key, i) ==
    IF i > Len(st.watchers)
    THEN \* _updateComponentsUsingGlobalStateOrGlobalData: $update of the mounted
         \* components whose template uses $state (logged as watcher 0)
         [st EXCEPT !.log = Append(@, [watcher |-> 0, path |-> key,
                                       newValue |-> st.vals[key], lastValue |-> st.vals[key],
                                       seen |-> st.vals])]
    ELSE IF st.watchers[i].path # key \/ st.vals[key] = st.last[i]
    THEN SbDispatch(st, key, i + 1)
    ELSE
    LET currentVal == st.vals[key]
        cb == st.watchers[i].cb
        called == [st EXCEPT !.log = Append(@, [watcher |-> i, path |-> key,
                                                 newValue |-> currentVal,
                                                 lastValue |-> st.last[i],
                                                 seen |-> st.vals])]
        ran == IF cb.writes THEN SbSet(called, cb.key, cb.val) ELSE called
    IN  SbDispatch([ran EXCEPT !.last[i] = currentVal], key, i + 1)

\* All the keys written first, the callbacks run afterwards.
RECURSIVE SetStateObject_Batched(_, _, _)
SetStateObject_Batched(st, obj, j) ==
    LET written == [st EXCEPT !.vals = [k \in StateKeys |->
                        IF \E n \in DOMAIN obj : obj[n].key = k
                        THEN obj[CHOOSE n \in DOMAIN obj : obj[n].key = k].val
                        ELSE st.vals[k]]]
    IN  IF j > Len(obj) THEN st
        ELSE SetStateObject_Batched(
                 SbDispatch(IF j = 1 THEN written ELSE st, obj[j].key, 1), obj, j + 1)

\* setState(object): for (const key in object) this.$state[key] = object[key],
\* from the j-th key on.
RECURSIVE SetStateObject(_, _, _)
SetStateObject(st, obj, j) ==
    IF j > Len(obj) THEN st
    ELSE SetStateObject(SbSet(st, obj[j].key, obj[j].val), obj, j + 1)

NoSetState == [obj |-> <<>>, before |-> [k \in StateKeys |-> "0"], log |-> <<>>]

SbIdle ==
    /\ sbVals = [k \in StateKeys |-> "0"]
    /\ sbWatchers = <<>>
    /\ sbLast = <<>>
    /\ sbOp = NoSetState

SbConstructed ==
    /\ sbVals = [k \in StateKeys |-> "0"]
    /\ sbWatchers = <<>>
    /\ sbLast = <<>>
    /\ sbOp = NoSetState

\* watchState(path, cb)
SbWatchState(path, cb) ==
    /\ Len(sbWatchers) < MaxStateWatchers
    /\ cb.writes => \A i \in DOMAIN sbWatchers : ~sbWatchers[i].cb.writes
    /\ sbWatchers' = Append(sbWatchers, [path |-> path, cb |-> cb])
    /\ sbLast' = Append(sbLast, sbVals[path])
    /\ sbOp' = NoSetState
    /\ UNCHANGED sbVals
    /\ SbFrame

\* setState(obj)
SbSetState(obj) ==
    LET r == SetStateObject([vals |-> sbVals, watchers |-> sbWatchers, last |-> sbLast,
                             log |-> <<>>], obj, 1)
    IN  /\ sbVals' = r.vals
        /\ sbLast' = r.last
        /\ sbOp' = [obj |-> obj, before |-> sbVals, log |-> r.log]
        /\ UNCHANGED sbWatchers
        /\ SbFrame

SbNext ==
    \/ \E path \in StateKeys, cb \in StateCallbacks : SbWatchState(path, cb)
    \/ \E obj \in StateObjects : SbSetState(obj)

(***************************************************************************)
(* A fetch directive in the root template whose url and method stay the    *)
(* same (signature "A"), with its container in the root data.  Every       *)
(* change of $loading, $error or data runs the container's callback, which *)
(* schedules a root re-render; the re-render processes a fresh clone of    *)
(* the node.  A queued re-render microtask runs before the transport       *)
(* settles and before a queued .finally() handler.                         *)
(***************************************************************************)
\* Calls of engine.request are counted up to this number.
MaxTransportCalls == 4

\* The set trap of the container calls the callback: a key without the
\* underscore prefix has a different value.
ContainerCallbackRuns(old, new) ==
    old.loading # new.loading \/ old.error # new.error \/ old.data # new.data

QlIdle ==
    /\ qlCfg = [noCache |-> FALSE, transport |-> "resolves"]
    /\ qlC = NewContainer
    /\ qlRendered = FALSE
    /\ qlScheduled = FALSE
    /\ qlReq = "none"
    /\ qlCalls = 0

QlConstructed ==
    /\ qlCfg \in [noCache : BOOLEAN, transport : {"resolves", "rejects", "either"}]
    /\ qlC = NewContainer
    /\ qlRendered = FALSE
    /\ qlScheduled = FALSE
    /\ qlReq = "none"
    /\ qlCalls = 0

\* _processFetchDirective over the freshly cloned node, during a render that
\* started with the flag as scheduled.
QlPass(scheduled) ==
    LET r == ProcessFetchDirective(qlC, "none", 0, "A", qlCfg.noCache) IN
    /\ qlC' = r.c
    /\ qlScheduled' = (scheduled \/ ContainerCallbackRuns(qlC, r.c))
    /\ qlReq' = IF r.request THEN "flight" ELSE qlReq
    /\ qlCalls' = IF r.request /\ qlCalls < MaxTransportCalls THEN qlCalls + 1 ELSE qlCalls

\* applyData(data, template): the first render.
QlApplyData ==
    /\ ~qlRendered
    /\ qlRendered' = TRUE
    /\ QlPass(qlScheduled)
    /\ UNCHANGED qlCfg
    /\ QlFrame

\* The microtask of _scheduleRootReRender: the flag is reset, the root is rendered.
QlRenderMicrotask ==
    /\ qlScheduled
    /\ QlPass(FALSE)
    /\ UNCHANGED <<qlCfg, qlRendered>>
    /\ QlFrame

\* The transport resolves: the .then() handler.
QlResolve ==
    /\ qlReq = "flight"
    /\ qlCfg.transport # "rejects"
    /\ ~qlScheduled
    /\ qlC' = FetchThen(qlC, "A")
    /\ qlScheduled' = ContainerCallbackRuns(qlC, qlC')
    /\ qlReq' = "resolved"
    /\ UNCHANGED <<qlCfg, qlRendered, qlCalls>>
    /\ QlFrame

\* The transport rejects: the .catch() handler.
QlReject ==
    /\ qlReq = "flight"
    /\ qlCfg.transport # "resolves"
    /\ ~qlScheduled
    /\ qlC' = FetchCatch(qlC)
    /\ qlScheduled' = ContainerCallbackRuns(qlC, qlC')
    /\ qlReq' = "rejected"
    /\ UNCHANGED <<qlCfg, qlRendered, qlCalls>>
    /\ QlFrame

\* The .finally() handler.
QlSettle ==
    /\ qlReq \in {"resolved", "rejected"}
    /\ ~qlScheduled
    /\ qlC' = FetchFinally(qlC, "A")
    /\ qlScheduled' = ContainerCallbackRuns(qlC, qlC')
    /\ qlReq' = "none"
    /\ UNCHANGED <<qlCfg, qlRendered, qlCalls>>
    /\ QlFrame

QlNext ==
    \/ QlApplyData
    \/ QlRenderMicrotask
    \/ QlResolve
    \/ QlReject
    \/ QlSettle

(***************************************************************************)
(* The root re-render scheduler with its promise chain                     *)
(*   Promise.resolve().then(render).catch(reset)                           *)
(* over renders during which code writes to the root data (hooks, fetch    *)
(* containers), renders that throw, and destroy().                         *)
(***************************************************************************)
SchedVals == {"1", "2", "3"}

ScIdle ==
    /\ scData = "1"
    /\ scFlag = FALSE
    /\ scQueue = <<>>
    /\ scPhase = "sync"
    /\ scDirty = FALSE
    /\ scRoot = "1"
    /\ scDestroyed = FALSE

\* this._currentRootData.key = value, from the code of a task or from code
\* that runs during a render.
ScWrite(value) ==
    /\ scPhase \in {"sync", "render"}
    /\ value # scData
    /\ scData' = value
    /\ LET s == ScheduleRootReRender(scFlag, scQueue) IN
        /\ scFlag' = s.sched
        /\ scQueue' = [i \in DOMAIN s.queue |->
                          IF s.queue[i] = "rootRender" THEN "render" ELSE s.queue[i]]
    /\ scDirty' = TRUE
    /\ UNCHANGED <<scPhase, scRoot, scDestroyed>>
    /\ ScFrame

\* The code of the task returns: the microtasks drain.
ScEndSync ==
    /\ scPhase = "sync"
    /\ scPhase' = "micro"
    /\ UNCHANGED <<scData, scFlag, scQueue, scDirty, scRoot, scDestroyed>>
    /\ ScFrame

\* The .then() job: the flag is reset and _reRenderRoot starts.
ScRenderStart ==
    /\ scPhase = "micro"
    /\ scQueue # <<>> /\ Head(scQueue) = "render"
    /\ scQueue' = Tail(scQueue)
    /\ scFlag' = FALSE
    /\ scDirty' = FALSE
    /\ scPhase' = "render"
    /\ UNCHANGED <<scData, scRoot, scDestroyed>>
    /\ ScFrame

\* _reRenderRoot returns, or throws before it has replaced the root's
\* content: the promise of .then() rejects and the .catch() job is queued.
ScRenderEnd(throws) ==
    /\ scPhase = "render"
    /\ scPhase' = "micro"
    /\ IF throws
       THEN scQueue' = Append(scQueue, "catch") /\ UNCHANGED scRoot
       ELSE scRoot' = scData /\ UNCHANGED scQueue
    /\ UNCHANGED <<scData, scFlag, scDirty, scDestroyed>>
    /\ ScFrame

\* The .catch() job.
ScCatch ==
    /\ scPhase = "micro"
    /\ scQueue # <<>> /\ Head(scQueue) = "catch"
    /\ scQueue' = Tail(scQueue)
    /\ scFlag' = FALSE
    /\ UNCHANGED <<scData, scPhase, scDirty, scRoot, scDestroyed>>
    /\ ScFrame

\* The queue is empty: the next task runs.
ScNextTask ==
    /\ scPhase = "micro"
    /\ scQueue = <<>>
    /\ scPhase' = "sync"
    /\ UNCHANGED <<scData, scFlag, scQueue, scDirty, scRoot, scDestroyed>>
    /\ ScFrame

\* destroy(), called by the code of a task.
ScDestroy ==
    /\ scPhase = "sync"
    /\ ~scDestroyed
    /\ scDestroyed' = TRUE
    /\ scRoot' = "empty"
    /\ UNCHANGED <<scData, scFlag, scQueue, scPhase, scDirty>>
    /\ ScFrame

ScNext ==
    \/ \E value \in SchedVals : ScWrite(value)
    \/ ScEndSync
    \/ ScRenderStart
    \/ \E throws \in BOOLEAN : ScRenderEnd(throws)
    \/ ScCatch
    \/ ScNextTask
    \/ ScDestroy

(***************************************************************************)
(* _eventListeners over root re-renders.  The root template may hold a     *)
(* button with data-on:click at root level ("rootBtn"), one inside an      *)
(* element with data-if="show" ("ifBtn"), and a component whose template   *)
(* has such a button ("compBtn").  Every render builds new elements; an    *)
(* element is named by the render that created it.                         *)
(***************************************************************************)
\* Root renders in a behaviour of the model.
MaxRootRenders == 4

ListenerTemplates == [rootBtn : BOOLEAN, ifBtn : BOOLEAN, compBtn : BOOLEAN]

\* The data-on elements render n creates, each with the id of the component
\* instance that owns it (0: the root).
RenderedBindings(tpl, show, n) ==
    (IF tpl.rootBtn THEN {[render |-> n, name |-> "rootBtn", componentId |-> 0]} ELSE {})
    \cup (IF tpl.ifBtn /\ show THEN {[render |-> n, name |-> "ifBtn", componentId |-> 0]} ELSE {})
    \cup (IF tpl.compBtn THEN {[render |-> n, name |-> "compBtn", componentId |-> n]} ELSE {})

\* _cleanupEventListenersBoundWithin(componentId) on the registry
CleanupRegistryBoundWithin(listeners, componentId) ==
    {l \in listeners : l.componentId # componentId}

LrIdle ==
    /\ lrTpl = [rootBtn |-> FALSE, ifBtn |-> FALSE, compBtn |-> FALSE]
    /\ lrShow = TRUE
    /\ lrRenders = 0
    /\ lrTree = {}
    /\ lrListeners = {}

LrConstructed ==
    /\ lrTpl \in ListenerTemplates
    /\ lrShow = TRUE
    /\ lrRenders = 0
    /\ lrTree = {}
    /\ lrListeners = {}

\* this._currentRootData.show = value
LrSetShow(value) ==
    /\ lrRenders > 0
    /\ value # lrShow
    /\ lrShow' = value
    /\ UNCHANGED <<lrTpl, lrRenders, lrTree, lrListeners>>
    /\ LrFrame

\* _reRenderRoot: the component instances inside the root are destroyed (their
\* listeners leave the registry), the template is processed into new elements,
\* whose listeners are pushed, and the root's content is replaced.
LrReRenderRoot ==
    /\ lrRenders < MaxRootRenders
    /\ LET n == lrRenders + 1
           afterDestroy == IF \E e \in lrTree : e.componentId # 0
                           THEN CleanupRegistryBoundWithin(lrListeners, lrRenders)
                           ELSE lrListeners
           fresh == RenderedBindings(lrTpl, lrShow, n)
       IN  /\ lrRenders' = n
           /\ lrTree' = fresh
           /\ lrListeners' = afterDestroy \cup fresh
    /\ UNCHANGED <<lrTpl, lrShow>>
    /\ LrFrame

LrNext ==
    \/ \E value \in BOOLEAN : LrSetShow(value)
    \/ LrReRenderRoot

(***************************************************************************)
(* A mounted component whose template holds <p data-if="a && b">.  Every   *)
(* compilation of the template processes a new copy of the element:        *)
(* _processIfDirective registers its updateIfBlock closure as a watcher    *)
(* for every key of the condition.                                         *)
(***************************************************************************)
\* Compilations of the template in a behaviour of the model.
MaxIfRenders == 8

IfKeys == {"a", "b"}
IfDataVals == {"", "x", "y"}

\* _processIfDirective on the element of render n: one watcher per key.
AttachIfWatchers(watchers, data, n) ==
    watchers \o <<[path |-> "a", render |-> n, oldValue |-> data["a"]],
                  [path |-> "b", render |-> n, oldValue |-> data["b"]]>>

\* The forEach over _watchers of the _componentData callback for key.
RunDataWatchers(watchers, data, key) ==
    [watchers |-> [i \in DOMAIN watchers |->
                      IF watchers[i].path = key /\ watchers[i].oldValue # data[key]
                      THEN [watchers[i] EXCEPT !.oldValue = data[key]]
                      ELSE watchers[i]],
     ran |-> {watchers[i].render : i \in {j \in DOMAIN watchers :
                      watchers[j].path = key /\ watchers[j].oldValue # data[key]}}]

IwIdle ==
    /\ iwData = [k \in IfKeys |-> ""]
    /\ iwRenders = 1
    /\ iwWatchers = AttachIfWatchers(<<>>, iwData, 1)
    /\ iwLast = [op |-> "mount", current |-> 1, ran |-> {}]

\* The instance after _renderComponent has compiled the template once.
IwMounted ==
    /\ iwData \in [IfKeys -> IfDataVals]
    /\ iwRenders = 1
    /\ iwWatchers = AttachIfWatchers(<<>>, iwData, 1)
    /\ iwLast = [op |-> "mount", current |-> 1, ran |-> {}]

\* this.key = value in the component: the _componentData callback runs the
\* watchers of the key and calls $update(), which compiles the template again.
IwDataWrite(key, value) ==
    /\ iwRenders < MaxIfRenders
    /\ value # iwData[key]
    /\ LET data == [iwData EXCEPT ![key] = value]
           r == RunDataWatchers(iwWatchers, data, key)
       IN  /\ iwData' = data
           /\ iwRenders' = iwRenders + 1
           /\ iwWatchers' = AttachIfWatchers(r.watchers, data, iwRenders + 1)
           /\ iwLast' = [op |-> "write", current |-> iwRenders, ran |-> r.ran]
    /\ IwFrame

\* $update() for another reason (a prop or global state changed).
IwUpdate ==
    /\ iwRenders < MaxIfRenders
    /\ iwRenders' = iwRenders + 1
    /\ iwWatchers' = AttachIfWatchers(iwWatchers, iwData, iwRenders + 1)
    /\ iwLast' = [op |-> "update", current |-> iwRenders, ran |-> {}]
    /\ UNCHANGED iwData
    /\ IwFrame

IwNext ==
    \/ \E key \in IfKeys, value \in IfDataVals : IwDataWrite(key, value)
    \/ IwUpdate

(***************************************************************************)
(* One render pass over                                                    *)
(*   <div [data-if=W]> <li data-repeat="item in items" [data-if=C]> </div> *)
(* W is absent ("none") or a condition that is "true" / "false"; C is      *)
(* absent, reads the loop variable ("item": item.ok) or reads an outer     *)
(* key that is true / false ("outerTrue" / "outerFalse").  A node after    *)
(* the anchor is a "processed" element, a "placeholder" comment or a "raw" *)
(* copy of the template; scopes lists the scopes it was processed with.    *)
(***************************************************************************)
\* Entries of the collection.
MaxLoopItems == 3

WrapperIfs == {"none", "true", "false"}
LoopIfs == {"none", "item", "outerTrue", "outerFalse"}
LoopCollections == UNION {[1..n -> BOOLEAN] : n \in 0..MaxLoopItems}

\* The evaluator of the loop element's condition with the loop-scope overlay
\* of an entry, and in the enclosing scope (item is missing: undefined).
CondInItemScope(loopIf, ok) == IF loopIf = "item" THEN ok ELSE loopIf = "outerTrue"
CondInEnclosingScope(loopIf) == loopIf = "outerTrue"

\* processSingleItem for entry i: the nodes that end up in fragmentToInsert.
\* Without a data-if the clone is processed and appended.  With one,
\* _processNode hands the detached clone to _processIfDirective, which
\* appends a fresh processed element or the placeholder to the fragment;
\* processSingleItem ignores the returned node and appends the clone as well.
ProcessSingleItem(loopIf, ok, i) ==
    IF loopIf = "none"
    THEN <<[entry |-> i, kind |-> "processed", scopes |-> <<"item">>]>>
    ELSE <<[entry |-> i,
            kind |-> IF CondInItemScope(loopIf, ok) THEN "processed" ELSE "placeholder",
            scopes |-> IF CondInItemScope(loopIf, ok) THEN <<"item">> ELSE <<>>],
           [entry |-> i, kind |-> "raw", scopes |-> <<>>]>>

RECURSIVE LoopClones(_, _, _)
LoopClones(loopIf, items, i) ==
    IF i > Len(items) THEN <<>>
    ELSE ProcessSingleItem(loopIf, items[i], i) \o LoopClones(loopIf, items, i + 1)

\* _processNode on the loop element, in the enclosing scope: its data-if is
\* handled first (a false condition leaves the placeholder and the loop
\* never runs), then _processRepeatDirective inserts the nodes of the entries.
ProcessLoopElement(loopIf, items) ==
    IF loopIf # "none" /\ ~CondInEnclosingScope(loopIf)
    THEN [ran |-> FALSE, inserted |-> <<>>]
    ELSE [ran |-> TRUE, inserted |-> LoopClones(loopIf, items, 1)]

\* The child recursion of _processNode over the wrapper, whose snapshot of
\* the children is taken after updateIfBlock has processed them: every
\* element after the anchor is processed with the wrapper's scope.
ProcessAgain(node, loopIf) ==
    IF node.kind = "placeholder" THEN node
    ELSE IF node.kind = "raw"
    THEN IF CondInEnclosingScope(loopIf)
         THEN [node EXCEPT !.kind = "processed", !.scopes = <<"enclosing">>]
         ELSE [node EXCEPT !.kind = "placeholder"]
    ELSE [node EXCEPT !.scopes = Append(@, "enclosing")]

\* _processNode on the wrapper element.
ProcessWrapper(tpl, items) ==
    LET r == ProcessLoopElement(tpl.loopIf, items) IN
    IF tpl.wrapperIf = "false" THEN [ran |-> FALSE, inserted |-> <<>>]
    ELSE IF tpl.wrapperIf = "none" THEN r
    ELSE [ran |-> r.ran,
          inserted |-> [n \in DOMAIN r.inserted |-> ProcessAgain(r.inserted[n], tpl.loopIf)]]

LiIdle ==
    /\ liTpl = [wrapperIf |-> "none", loopIf |-> "none"]
    /\ liItems = <<>>
    /\ liOut = [valid |-> FALSE, items |-> <<>>, ran |-> FALSE, inserted |-> <<>>]

LiParsed ==
    /\ liTpl \in [wrapperIf : WrapperIfs, loopIf : LoopIfs]
    /\ liItems = <<>>
    /\ liOut = [valid |-> FALSE, items |-> <<>>, ran |-> FALSE, inserted |-> <<>>]

\* data.items = items
LiSetItems(items) ==
    /\ items # liItems
    /\ liItems' = items
    /\ UNCHANGED <<liTpl, liOut>>
    /\ LiFrame

\* A render pass over a fresh copy of the template.
LiRender ==
    /\ LET r == ProcessWrapper(liTpl, liItems) IN
        liOut' = [valid |-> TRUE, items |-> liItems, ran |-> r.ran, inserted |-> r.inserted]
    /\ UNCHANGED <<liTpl, liItems>>
    /\ LiFrame

LiNext ==
    \/ \E items \in LoopCollections : LiSetItems(items)
    \/ LiRender

vars == <<rxVars, rootVars, fetchVars, ifVars, rpVars, pnVars, compVars, adVars, swVars, cpVars, mbVars, hpVars, evVars, etVars, slVars, shVars, cmVars, rmVars, cwVars, syVars, hdVars, sbVars, qlVars, scVars, lrVars, iwVars, liVars>>

\* A container as the program may hold it when a trap runs.
RxInit ==
    /\ target \in [Keys -> {Prim("null"), Prim("1"), Obj(<<>>)}]
    /\ lastOp = NoOp
    /\ RootIdle
    /\ FetchIdle
    /\ IfIdle
    /\ RpIdle
    /\ PnIdle
    /\ CompIdle
    /\ AdIdle
    /\ SwIdle
    /\ CpIdle
    /\ MbIdle
    /\ HpIdle
    /\ EvIdle
    /\ EtIdle
    /\ SlIdle
    /\ ShIdle
    /\ CmIdle
    /\ RmIdle
    /\ CwIdle
    /\ SyIdle
    /\ HdIdle
    /\ SbIdle
    /\ QlIdle
    /\ ScIdle
    /\ LrIdle
    /\ IwIdle
    /\ LiIdle

RootInit == RootIdle /\ RxIdle /\ FetchIdle /\ IfIdle /\ RpIdle /\ PnIdle /\ CompIdle /\ AdIdle /\ SwIdle /\ CpIdle /\ MbIdle /\ HpIdle /\ EvIdle /\ EtIdle /\ SlIdle /\ ShIdle /\ CmIdle /\ RmIdle /\ CwIdle /\ SyIdle /\ HdIdle /\ SbIdle /\ QlIdle /\ ScIdle /\ LrIdle /\ IwIdle /\ LiIdle

FetchInit == FetchIdle /\ RxIdle /\ RootIdle /\ IfIdle /\ RpIdle /\ PnIdle /\ CompIdle /\ AdIdle /\ SwIdle /\ CpIdle /\ MbIdle /\ HpIdle /\ EvIdle /\ EtIdle /\ SlIdle /\ ShIdle /\ CmIdle /\ RmIdle /\ CwIdle /\ SyIdle /\ HdIdle /\ SbIdle /\ QlIdle /\ ScIdle /\ LrIdle /\ IwIdle /\ LiIdle

IfInit == IfProcessed /\ RxIdle /\ RootIdle /\ FetchIdle /\ RpIdle /\ PnIdle /\ CompIdle /\ AdIdle /\ SwIdle /\ CpIdle /\ MbIdle /\ HpIdle /\ EvIdle /\ EtIdle /\ SlIdle /\ ShIdle /\ CmIdle /\ RmIdle /\ CwIdle /\ SyIdle /\ HdIdle /\ SbIdle /\ QlIdle /\ ScIdle /\ LrIdle /\ IwIdle /\ LiIdle

RpInit == RpRendered /\ RxIdle /\ RootIdle /\ FetchIdle /\ IfIdle /\ PnIdle /\ CompIdle /\ AdIdle /\ SwIdle /\ CpIdle /\ MbIdle /\ HpIdle /\ EvIdle /\ EtIdle /\ SlIdle /\ ShIdle /\ CmIdle /\ RmIdle /\ CwIdle /\ SyIdle /\ HdIdle /\ SbIdle /\ QlIdle /\ ScIdle /\ LrIdle /\ IwIdle /\ LiIdle

PnInit == PnParsed /\ RxIdle /\ RootIdle /\ FetchIdle /\ IfIdle /\ RpIdle /\ CompIdle /\ AdIdle /\ SwIdle /\ CpIdle /\ MbIdle /\ HpIdle /\ EvIdle /\ EtIdle /\ SlIdle /\ ShIdle /\ CmIdle /\ RmIdle /\ CwIdle /\ SyIdle /\ HdIdle /\ SbIdle /\ QlIdle /\ ScIdle /\ LrIdle /\ IwIdle /\ LiIdle

CompInit ==
    CompRendered /\ RxIdle /\ RootIdle /\ FetchIdle /\ IfIdle /\ RpIdle /\ PnIdle /\ AdIdle /\ SwIdle /\ CpIdle /\ MbIdle /\ HpIdle /\ EvIdle /\ EtIdle /\ SlIdle /\ ShIdle /\ CmIdle /\ RmIdle /\ CwIdle /\ SyIdle /\ HdIdle /\ SbIdle /\ QlIdle /\ ScIdle /\ LrIdle /\ IwIdle /\ LiIdle

AdInit ==
    AdConstructed /\ RxIdle /\ RootIdle /\ FetchIdle /\ IfIdle /\ RpIdle /\ PnIdle /\ CompIdle /\ SwIdle /\ CpIdle /\ MbIdle /\ HpIdle /\ EvIdle /\ EtIdle /\ SlIdle /\ ShIdle /\ CmIdle /\ RmIdle /\ CwIdle /\ SyIdle /\ HdIdle /\ SbIdle /\ QlIdle /\ ScIdle /\ LrIdle /\ IwIdle /\ LiIdle

SwInit ==
    SwConstructed /\ RxIdle /\ RootIdle /\ FetchIdle /\ IfIdle /\ RpIdle /\ PnIdle /\ CompIdle /\ AdIdle /\ CpIdle /\ MbIdle /\ HpIdle /\ EvIdle /\ EtIdle /\ SlIdle /\ ShIdle /\ CmIdle /\ RmIdle /\ CwIdle /\ SyIdle /\ HdIdle /\ SbIdle /\ QlIdle /\ ScIdle /\ LrIdle /\ IwIdle /\ LiIdle

CpInit ==
    CpCreated /\ RxIdle /\ RootIdle /\ FetchIdle /\ IfIdle /\ RpIdle /\ PnIdle /\ CompIdle /\ AdIdle /\ SwIdle /\ MbIdle /\ HpIdle /\ EvIdle /\ EtIdle /\ SlIdle /\ ShIdle /\ CmIdle /\ RmIdle /\ CwIdle /\ SyIdle /\ HdIdle /\ SbIdle /\ QlIdle /\ ScIdle /\ LrIdle /\ IwIdle /\ LiIdle

MbInit ==
    MbParsed /\ RxIdle /\ RootIdle /\ FetchIdle /\ IfIdle /\ RpIdle /\ PnIdle /\ CompIdle /\ AdIdle /\ SwIdle /\ CpIdle /\ HpIdle /\ EvIdle /\ EtIdle /\ SlIdle /\ ShIdle /\ CmIdle /\ RmIdle /\ CwIdle /\ SyIdle /\ HdIdle /\ SbIdle /\ QlIdle /\ ScIdle /\ LrIdle /\ IwIdle /\ LiIdle

HpInit ==
    HpStart /\ RxIdle /\ RootIdle /\ FetchIdle /\ IfIdle /\ RpIdle /\ PnIdle /\ CompIdle /\ AdIdle /\ SwIdle /\ CpIdle /\ MbIdle /\ EvIdle /\ EtIdle /\ SlIdle /\ ShIdle /\ CmIdle /\ RmIdle /\ CwIdle /\ SyIdle /\ HdIdle /\ SbIdle /\ QlIdle /\ ScIdle /\ LrIdle /\ IwIdle /\ LiIdle

EvInit ==
    EvConstructed /\ RxIdle /\ RootIdle /\ FetchIdle /\ IfIdle /\ RpIdle /\ PnIdle /\ CompIdle /\ AdIdle /\ SwIdle /\ CpIdle /\ MbIdle /\ HpIdle /\ EtIdle /\ SlIdle /\ ShIdle /\ CmIdle /\ RmIdle /\ CwIdle /\ SyIdle /\ HdIdle /\ SbIdle /\ QlIdle /\ ScIdle /\ LrIdle /\ IwIdle /\ LiIdle

EtInit ==
    EtParsed /\ RxIdle /\ RootIdle /\ FetchIdle /\ IfIdle /\ RpIdle /\ PnIdle /\ CompIdle /\ AdIdle /\ SwIdle /\ CpIdle /\ MbIdle /\ HpIdle /\ EvIdle /\ SlIdle /\ ShIdle /\ CmIdle /\ RmIdle /\ CwIdle /\ SyIdle /\ HdIdle /\ SbIdle /\ QlIdle /\ ScIdle /\ LrIdle /\ IwIdle /\ LiIdle

SlInit ==
    SlParsed /\ RxIdle /\ RootIdle /\ FetchIdle /\ IfIdle /\ RpIdle /\ PnIdle /\ CompIdle /\ AdIdle /\ SwIdle /\ CpIdle /\ MbIdle /\ HpIdle /\ EvIdle /\ EtIdle /\ ShIdle /\ CmIdle /\ RmIdle /\ CwIdle /\ SyIdle /\ HdIdle /\ SbIdle /\ QlIdle /\ ScIdle /\ LrIdle /\ IwIdle /\ LiIdle

ShInit ==
    ShConstructed /\ RxIdle /\ RootIdle /\ FetchIdle /\ IfIdle /\ RpIdle /\ PnIdle /\ CompIdle /\ AdIdle /\ SwIdle /\ CpIdle /\ MbIdle /\ HpIdle /\ EvIdle /\ EtIdle /\ SlIdle /\ CmIdle /\ RmIdle /\ CwIdle /\ SyIdle /\ HdIdle /\ SbIdle /\ QlIdle /\ ScIdle /\ LrIdle /\ IwIdle /\ LiIdle

CmInit ==
    CmRendered /\ RxIdle /\ RootIdle /\ FetchIdle /\ IfIdle /\ RpIdle /\ PnIdle /\ CompIdle /\ AdIdle /\ SwIdle /\ CpIdle /\ MbIdle /\ HpIdle /\ EvIdle /\ EtIdle /\ SlIdle /\ ShIdle /\ RmIdle /\ CwIdle /\ SyIdle /\ HdIdle /\ SbIdle /\ QlIdle /\ ScIdle /\ LrIdle /\ IwIdle /\ LiIdle

RmInit ==
    RmConstructed /\ RxIdle /\ RootIdle /\ FetchIdle /\ IfIdle /\ RpIdle /\ PnIdle /\ CompIdle /\ AdIdle /\ SwIdle /\ CpIdle /\ MbIdle /\ HpIdle /\ EvIdle /\ EtIdle /\ SlIdle /\ ShIdle /\ CmIdle /\ CwIdle /\ SyIdle /\ HdIdle /\ SbIdle /\ QlIdle /\ ScIdle /\ LrIdle /\ IwIdle /\ LiIdle

CwInit ==
    CwMounted /\ RxIdle /\ RootIdle /\ FetchIdle /\ IfIdle /\ RpIdle /\ PnIdle /\ CompIdle /\ AdIdle /\ SwIdle /\ CpIdle /\ MbIdle /\ HpIdle /\ EvIdle /\ EtIdle /\ SlIdle /\ ShIdle /\ CmIdle /\ RmIdle /\ SyIdle /\ HdIdle /\ SbIdle /\ QlIdle /\ ScIdle /\ LrIdle /\ IwIdle /\ LiIdle

SyInit ==
    SyRendered /\ RxIdle /\ RootIdle /\ FetchIdle /\ IfIdle /\ RpIdle /\ PnIdle /\ CompIdle /\ AdIdle /\ SwIdle /\ CpIdle /\ MbIdle /\ HpIdle /\ EvIdle /\ EtIdle /\ SlIdle /\ ShIdle /\ CmIdle /\ RmIdle /\ CwIdle /\ HdIdle /\ SbIdle /\ QlIdle /\ ScIdle /\ LrIdle /\ IwIdle /\ LiIdle

HdInit ==
    HdParsed /\ RxIdle /\ RootIdle /\ FetchIdle /\ IfIdle /\ RpIdle /\ PnIdle /\ CompIdle /\ AdIdle /\ SwIdle /\ CpIdle /\ MbIdle /\ HpIdle /\ EvIdle /\ EtIdle /\ SlIdle /\ ShIdle /\ CmIdle /\ RmIdle /\ CwIdle /\ SyIdle /\ SbIdle /\ QlIdle /\ ScIdle /\ LrIdle /\ IwIdle /\ LiIdle

SbInit ==
    SbConstructed /\ RxIdle /\ RootIdle /\ FetchIdle /\ IfIdle /\ RpIdle /\ PnIdle /\ CompIdle /\ AdIdle /\ SwIdle /\ CpIdle /\ MbIdle /\ HpIdle /\ EvIdle /\ EtIdle /\ SlIdle /\ ShIdle /\ CmIdle /\ RmIdle /\ CwIdle /\ SyIdle /\ HdIdle /\ QlIdle /\ ScIdle /\ LrIdle /\ IwIdle /\ LiIdle

QlInit ==
    QlConstructed /\ RxIdle /\ RootIdle /\ FetchIdle /\ IfIdle /\ RpIdle /\ PnIdle /\ CompIdle /\ AdIdle /\ SwIdle /\ CpIdle /\ MbIdle /\ HpIdle /\ EvIdle /\ EtIdle /\ SlIdle /\ ShIdle /\ CmIdle /\ RmIdle /\ CwIdle /\ SyIdle /\ HdIdle /\ SbIdle /\ ScIdle /\ LrIdle /\ IwIdle /\ LiIdle

ScInit ==
    ScIdle /\ RxIdle /\ RootIdle /\ FetchIdle /\ IfIdle /\ RpIdle /\ PnIdle /\ CompIdle /\ AdIdle /\ SwIdle /\ CpIdle /\ MbIdle /\ HpIdle /\ EvIdle /\ EtIdle /\ SlIdle /\ ShIdle /\ CmIdle /\ RmIdle /\ CwIdle /\ SyIdle /\ HdIdle /\ SbIdle /\ QlIdle /\ LrIdle /\ IwIdle /\ LiIdle

LrInit ==
    LrConstructed /\ RxIdle /\ RootIdle /\ FetchIdle /\ IfIdle /\ RpIdle /\ PnIdle /\ CompIdle /\ AdIdle /\ SwIdle /\ CpIdle /\ MbIdle /\ HpIdle /\ EvIdle /\ EtIdle /\ SlIdle /\ ShIdle /\ CmIdle /\ RmIdle /\ CwIdle /\ SyIdle /\ HdIdle /\ SbIdle /\ QlIdle /\ ScIdle /\ IwIdle /\ LiIdle

IwInit ==
    IwMounted /\ RxIdle /\ RootIdle /\ FetchIdle /\ IfIdle /\ RpIdle /\ PnIdle /\ CompIdle /\ AdIdle /\ SwIdle /\ CpIdle /\ MbIdle /\ HpIdle /\ EvIdle /\ EtIdle /\ SlIdle /\ ShIdle /\ CmIdle /\ RmIdle /\ CwIdle /\ SyIdle /\ HdIdle /\ SbIdle /\ QlIdle /\ ScIdle /\ LrIdle /\ LiIdle

LiInit ==
    LiParsed /\ RxIdle /\ RootIdle /\ FetchIdle /\ IfIdle /\ RpIdle /\ PnIdle /\ CompIdle /\ AdIdle /\ SwIdle /\ CpIdle /\ MbIdle /\ HpIdle /\ EvIdle /\ EtIdle /\ SlIdle /\ ShIdle /\ CmIdle /\ RmIdle /\ CwIdle /\ SyIdle /\ HdIdle /\ SbIdle /\ QlIdle /\ ScIdle /\ LrIdle /\ IwIdle

SpecReactive == RxInit /\ [][RxNext]_vars

SpecRoot == RootInit /\ [][RootNext]_vars

SpecFetch == FetchInit /\ [][FetchNext]_vars

SpecIf == IfInit /\ [][IfNext]_vars

SpecRepeat == RpInit /\ [][RpNext]_vars

SpecProc == PnInit /\ [][PnNext]_vars

SpecComp == CompInit /\ [][CompNext]_vars

SpecApply == AdInit /\ [][AdNext]_vars

SpecWatch == SwInit /\ [][SwNext]_vars

SpecProps == CpInit /\ [][CpNext]_vars

SpecModelBinding == MbInit /\ [][MbNext]_vars

SpecHeap == HpInit /\ [][HpNext]_vars

SpecEvaluator == EvInit /\ [][EvNext]_vars

SpecEmit == EtInit /\ [][EtNext]_vars

SpecSlot == SlInit /\ [][SlNext]_vars

SpecSafeHtml == ShInit /\ [][ShNext]_vars

SpecComputed == CmInit /\ [][CmNext]_vars

SpecRemoval == RmInit /\ [][RmNext]_vars

SpecCompWatch == CwInit /\ [][CwNext]_vars

SpecSync == SyInit /\ [][SyNext]_vars

SpecHandler == HdInit /\ [][HdNext]_vars

SpecStateBatch == SbInit /\ [][SbNext]_vars

SpecFetchLoop == QlInit /\ [][QlNext]_vars

SpecSched == ScInit /\ [][ScNext]_vars

SpecRegistry == LrInit /\ [][LrNext]_vars

SpecIfWatch == IwInit /\ [][IwNext]_vars

SpecLoopIf == LiInit /\ [][LiNext]_vars

\* The code of a task returns and the queued microtasks run to completion.
FairSpecSched ==
    /\ ScInit /\ [][ScNext]_vars
    /\ WF_vars(ScEndSync) /\ WF_vars(ScRenderStart) /\ WF_vars(ScCatch)
    /\ WF_vars(\E throws \in BOOLEAN : ScRenderEnd(throws))

\* Microtasks run, the transport settles every request, handlers run.
FairSpecFetchLoop ==
    /\ QlInit /\ [][QlNext]_vars
    /\ WF_vars(QlApplyData) /\ WF_vars(QlRenderMicrotask)
    /\ WF_vars(QlResolve) /\ WF_vars(QlReject) /\ WF_vars(QlSettle)

(***************************************************************************)
(* C1: for a key not starting with '_', a write of a value structurally    *)
(* equal to the stored value invokes the change callback not at all, and a *)
(* write of a structurally different value invokes it exactly once, with   *)
(* the key, the new value and the previously stored value.                 *)
(***************************************************************************)
C1_EqualSilentDifferentOnce ==
    (lastOp.op = "set" /\ ~StartsWithUnderscore(lastOp.key)) =>
        IF StructEq(lastOp.value, lastOp.old)
        THEN lastOp.calls = <<>>
        ELSE lastOp.calls = << <<lastOp.key, lastOp.value, lastOp.old>> >>

InFlight(sig) == {i \in DOMAIN reqs : reqs[i].sig = sig /\ reqs[i].st = "flight"}

C3_OneTransportCallPerSignature ==
    \A sig \in Sigs : Cardinality(InFlight(sig)) <= 1

(***************************************************************************)
(* C4 as stated: every settling request, superseded or not, leaves         *)
(* $loading false, both in-flight markers cleared, and data / $error /     *)
(* the success flag as its outcome says.                                   *)
(***************************************************************************)
TerminalState(s) ==
    /\ ~s.c.loading
    /\ ~s.c.fetching
    /\ s.markCleared
    /\ IF s.ok
       THEN s.c.data = Payload(s.sig) /\ s.c.error = "null" /\ s.c.success
       ELSE s.c.data = "null" /\ s.c.error = "error"

BindingNodes(seq) == {i \in DOMAIN seq : seq[i] # Sibling}

C5_ExactlyOneAcrossToggles ==
    ifToggled =>
        /\ Cardinality(BindingNodes(ifDom.kids)) = 1
        /\ Cardinality(ifDom.reg) <= 1

(***************************************************************************)
(* C6: after a render that read the current collection of n entries, the   *)
(* loop's container holds the anchor, directly followed by the n clones in *)
(* collection order, and no other clone - for a nested and for a top-level *)
(* loop element.                                                           *)
(***************************************************************************)
C6_ClonesFollowAnchor ==
    rpFresh =>
        /\ \E a \in DOMAIN rpDom :
              /\ rpDom[a] = AnchorNode
              /\ SubSeq(rpDom, a + 1, a + Len(rpItems)) = Clones(rpItems)
        /\ Cardinality({i \in DOMAIN rpDom : rpDom[i].kind = "clone"}) = Len(rpItems)

(***************************************************************************)
(* C7: from the second call on, _processNode leaves the listener count,    *)
(* the registry count and the DOM children as the first call left them.    *)
(***************************************************************************)
C7_SecondCallChangesNothing ==
    pnCalls >= 2 =>
        /\ pn.listeners = pnFirst.listeners
        /\ pn.registry = pnFirst.registry
        /\ pn.pkids = pnFirst.pkids
        /\ pn.fkids = pnFirst.fkids

(***************************************************************************)
(* C8: the definition callbacks run in the order created, mounted,         *)
(* beforeDestroy, destroyed, each at most once; every re-render lies after *)
(* mounted and before destroyed; mounted is not run for an instance that   *)
(* was destroyed before its mount step; nothing is run after destroyed.    *)
(***************************************************************************)
Rank(name) ==
    CASE name = "created" -> 0
      [] name = "mounted" -> 1
      [] name = "beforeDestroy" -> 2
      [] name = "destroyed" -> 3
      [] OTHER -> -1

Positions(log, name) == {i \in DOMAIN log : log[i] = name}

C8_LifecycleOrder ==
    LET log == comp.log
        callbacks == {i \in DOMAIN log : Rank(log[i]) >= 0}
    IN  /\ log[1] = "created"
        /\ \A i, j \in callbacks : i < j => Rank(log[i]) < Rank(log[j])
        /\ \A u \in Positions(log, "update") :
              /\ \E m \in Positions(log, "mounted") : m < u
              /\ \A d \in Positions(log, "destroyed") : u < d
        /\ \A d \in Positions(log, "destroyed") :
              \A i \in DOMAIN log : i > d => log[i] = "afterComponentDestroy"

(***************************************************************************)
(* C9: once $destroy() has been called, beforeDestroy, destroyed and the   *)
(* two destroy hooks have each run exactly once, however the calls were    *)
(* made, and a call on a destroyed instance changes nothing.               *)
(***************************************************************************)
C9_DestroyOnce ==
    /\ compCalls.destroy >= 1 =>
          \A name \in {"beforeComponentDestroy", "beforeDestroy",
                        "destroyed", "afterComponentDestroy"} :
              Cardinality(Positions(comp.log, name)) = 1
    /\ (compLast.op = "destroy" /\ compLast.before.destroyed) =>
          comp = compLast.before

(***************************************************************************)
(* C10: when $destroy() has returned, no listener registered under the     *)
(* instance's id is left, the sync listeners are off the host, and the     *)
(* host's content is empty.                                                *)
(***************************************************************************)
C10_NothingLeftAfterDestroy ==
    compLast.op = "destroy" =>
        /\ comp.own = 0
        /\ comp.sync = 0
        /\ comp.content = "empty"

\* A mounted, re-rendered instance with listeners of its own, sync listeners
\* and child listeners has been destroyed; the child listeners are still there.
C10_Witness ==
    /\ compLast.op = "destroy"
    /\ ~compLast.before.destroyed
    /\ compLast.before.own = 2
    /\ compLast.before.sync = 1
    /\ Positions(compLast.before.log, "update") # {}
    /\ comp.other > 0
    /\ comp.own = 0

(***************************************************************************)
(* C11: after every applyData call without a template argument the root    *)
(* content is the rendering of the original root template against the data *)
(* of that call.                                                           *)
(***************************************************************************)
C11_ApplyDataRendersOriginal ==
    adLast = "applyData" => adRoot = ReRenderRoot(adOriginal, adData)

(***************************************************************************)
(* C12: a dispatch invokes each callback with (new value, value last seen  *)
(* by that watcher), and never invokes the callback of a watcher whose     *)
(* unwatch function has already returned - also when unwatch was called by *)
(* another callback of the same dispatch.                                  *)
(***************************************************************************)
C12_NoCallbackAfterUnwatch ==
    \A i \in DOMAIN swDispatch :
        /\ swDispatch[i][2] = swValue
        /\ swDispatch[i][2] # swDispatch[i][3]
        /\ ~swDispatch[i][4]

(***************************************************************************)
(* C13: an assignment to the prop name made inside the component, through  *)
(* the template context or through this.$props, leaves the value the       *)
(* component reads for the prop unchanged and causes no re-render.         *)
(***************************************************************************)
C13_PropAssignmentRejected ==
    cpLast.op = "assignProp" =>
        /\ ContextGet(cpData, cpProps, "title") = cpLast.read
        /\ cpRenders = cpLast.renders

C17_OneWrapperPerObject ==
    \A p, q \in ObjIds :
        (heap[p].kind = "proxy" /\ heap[q].kind = "proxy"
            /\ heap[p].target = heap[q].target) => p = q

\* The expression text contains one of the six strings of the denylist.
ContainsDenylisted(e) ==
    \/ \E i \in 1..(Len(e) - 1) :
          \/ e[i] \in {"Function", "eval", "setTimeout", "setInterval"} /\ e[i + 1] = "("
          \/ e[i] = "constructor" /\ e[i + 1] = "["
    \/ \E i \in 1..Len(e) : e[i] = "__proto__"

(***************************************************************************)
(* C18: an evaluator built for an expression that contains a denylisted    *)
(* string is never compiled and never run, and every invocation of it      *)
(* returns undefined, whatever the scope.                                  *)
(***************************************************************************)
C18_DenylistedNeverRuns ==
    (evKind # "none" /\ ContainsDenylisted(evExpr)) =>
        /\ evCompiles = 0
        /\ evRuns = 0
        /\ evCalls > 0 => evResult = "undefined"

\* A denylisted expression over a name in scope was invoked twice.
C18_Witness ==
    /\ ContainsDenylisted(evExpr)
    /\ evScope = {"x"}
    /\ evCalls = 2
    /\ evResult = "undefined"

(***************************************************************************)
(* C19: the definition's updated() callback runs after every re-render of  *)
(* a mounted instance: each effective $update in the log is followed by    *)
(* "updated".                                                              *)
(***************************************************************************)
C19_UpdatedAfterEveryUpdate ==
    \A i \in DOMAIN comp.log :
        comp.log[i] = "update" =>
            (i < Len(comp.log) /\ comp.log[i + 1] = "updated")

(***************************************************************************)
(* C20: for a component tag that carries data-on:<name>, every $emit of    *)
(* <name> by the instance invokes the usage-site handler once.             *)
(***************************************************************************)
C20_HandlerOncePerEmit ==
    \A name \in EventNames :
        (etHost.component /\ name \in etHost.on) =>
            etHandled[name] = etEvents[name]

(***************************************************************************)
(* C21: an event binding on an element of the slot content is live in the  *)
(* projected DOM: every bound event fired on a projected element invokes   *)
(* the usage-site handler.                                                 *)
(***************************************************************************)
C21_SlotHandlersLive ==
    \A name \in EventNames : slHandled[name] = slFired[name]

(***************************************************************************)
(* C22: whatever allowRawHTML is, an element with data-safe-html whose     *)
(* expression has a value shows the escaped value after it was processed.  *)
(***************************************************************************)
C22_SafeHtmlAlwaysRenders ==
    (shHtml.processed /\ shValue.defined) => shHtml.html = SanitizeHTML(shValue.text)

(***************************************************************************)
(* C23: when $update compiles the template, every computed property's      *)
(* cached value is what its getter returns on the current inputs, for      *)
(* every definition order and every chain of computed properties.          *)
(***************************************************************************)
C23_ComputedFreshAtCompile ==
    cmLast.op = "update" =>
        \A k \in ComputedKeys : cmLast.cache[k] = cmLast.inputs

(***************************************************************************)
(* C24: an instance whose host has left the rendered tree is destroyed:    *)
(* its beforeDestroy and destroyed callbacks have run and it is marked     *)
(* destroyed.                                                              *)
(***************************************************************************)
C24_RemovedMeansDestroyed ==
    \A i \in InstanceIds :
        (rmInst[i].place # "none" /\ ~rmInst[i].inTree) =>
            /\ rmInst[i].destroyed
            /\ rmInst[i].callbacks = <<"beforeDestroy", "destroyed">>

\* The watcher paths a change of the data key user, of the prop title or of
\* the computed property double concerns.
ConcernedBy(path, op) ==
    \/ op = "data" /\ path \in {"user", "user.name", "double"}
    \/ op = "prop" /\ path = "title"

(***************************************************************************)
(* C25: after a change of data, of a prop or of a computed value, a        *)
(* watcher whose path the change concerns was invoked if and only if the   *)
(* value resolved at its path differs from its recorded value, and the     *)
(* recorded value is then the resolved one (no callback throwing).         *)
(***************************************************************************)
C25_WatcherInvokedIffChanged ==
    (/\ cwLast.op \in {"data", "prop"}
     /\ cwDefWatch # "throws"
     /\ \A i \in DOMAIN cwWatchers : ~cwWatchers[i].throws) =>
        \A i \in DOMAIN cwWatchers :
            ConcernedBy(cwWatchers[i].path, cwLast.op) =>
                LET cur == ResolveWatched(cwWatchers[i].path, cwVals, cwDouble) IN
                /\ (i \in cwLast.ran) <=> (cur # cwLast.before[i].old)
                /\ cwWatchers[i].old = cur

(***************************************************************************)
(* C26: a component watcher on a path prefixed by $state. is invoked when  *)
(* the value at that global-state path changes.                            *)
(***************************************************************************)
C26_StateWatcherInvoked ==
    cwLast.op = "state" =>
        \A i \in DOMAIN cwWatchers :
            cwWatchers[i].path = "$state.n" => i \in cwLast.ran

(***************************************************************************)
(* C27: an exception thrown by a $watch callback or by a definition-level  *)
(* watch handler during a data or prop change does not reach the writer,   *)
(* every concerned watcher whose value changed still runs, and the         *)
(* component is re-rendered.                                               *)
(***************************************************************************)
C27_WatcherErrorsContained ==
    cwLast.op \in {"data", "prop"} =>
        /\ ~cwLast.thrown
        /\ cwLast.rendered
        /\ \A i \in DOMAIN cwWatchers :
              (cwLast.op = "data" /\ WatcherMatches(cwWatchers[i].path, "user")) =>
                  i \in cwLast.ran

(***************************************************************************)
(* C28: an update event emitted by a component writes the value to the     *)
(* path bound on that component's own host and changes no other bound      *)
(* path.                                                                   *)
(***************************************************************************)
C28_SyncWritesOwnPathOnly ==
    syLast.host # "none" =>
        \A g \in SyncHosts :
            syBound[g] = IF g = syLast.host /\ syListens[g] = syLast.event
                         THEN syLast.detail
                         ELSE syLast.before[g]

(***************************************************************************)
(* C29: when the text of a data-on: handler expression matches the         *)
(* denylist, firing the event never resolves nor invokes the denied        *)
(* function.                                                               *)
(***************************************************************************)
C29_DeniedHandlerNeverInvoked ==
    (hdFires > 0 /\ ~IsValidExpression(HandlerText(hdHandler))) =>
        /\ hdLast.resolved # "global"
        /\ hdLast.invoked = "none"

(***************************************************************************)
(* C30: a write or a delete of a key whose name starts with '_' never      *)
(* invokes the container's change callback, whatever the old and the new   *)
(* value are.                                                              *)
(***************************************************************************)
C30_UnderscoreKeysSilent ==
    (lastOp.op \in {"set", "delete"} /\ lastOp.key = "_spxFlag") =>
        lastOp.calls = <<>>

\* An internal key was written with a structurally different value.
C30_Witness ==
    /\ lastOp.op = "set"
    /\ lastOp.key = "_spxFlag"
    /\ ~StructEq(lastOp.old, lastOp.value)
    /\ HasChanged(lastOp.old, lastOp.value)
    /\ target["_spxFlag"] = lastOp.value
    /\ lastOp.calls = <<>>

C35_LastValueIsCurrent ==
    \A i \in DOMAIN sbWatchers : sbLast[i] = sbVals[sbWatchers[i].path]

(***************************************************************************)
(* C33: whenever the container has its success flag set and no request is  *)
(* outstanding, its data is the payload of the request whose signature is  *)
(* _spxLastFetchId, in whatever order the requests settled.                *)
(***************************************************************************)
C33_DataMatchesLastFetchId ==
    (fs.success /\ reqs = <<>>) => fs.data = Payload(fs.lastId)

(***************************************************************************)
(* C32: with an unchanged url and method and no external mutation, the     *)
(* engine eventually stays quiescent (no request in flight, no re-render   *)
(* pending), also when the request fails or data-fetch-cache is "false".   *)
(***************************************************************************)
C32_FetchQuiescence ==
    <>[](qlReq = "none" /\ ~qlScheduled)

(***************************************************************************)
(* C34: after destroy() has returned the root element stays empty, also    *)
(* when a re-render was scheduled before destroy() or root data is written *)
(* afterwards.                                                             *)
(***************************************************************************)
C34_RootStaysEmptyAfterDestroy ==
    scDestroyed => scRoot = "empty"

(***************************************************************************)
(* C40: _rootRerenderScheduled is true exactly when a root re-render       *)
(* microtask is pending, also when code writes during a render or a        *)
(* render throws.                                                          *)
(***************************************************************************)
C40_FlagIffRenderPending ==
    scFlag <=> (\E i \in DOMAIN scQueue : scQueue[i] = "render")

\* The liveness half of C40: every change of the root data is followed by a
\* re-render that starts after it.
C40_ChangeLeadsToRender ==
    scDirty ~> ~scDirty

(***************************************************************************)
(* C36: after every root re-render each entry of _eventListeners refers to *)
(* an element of the rendered tree, so the registry is no larger than the  *)
(* number of bindings of the tree.                                         *)
(***************************************************************************)
C36_RegistryRefersToCurrentTree ==
    lrRenders > 0 =>
        /\ lrListeners \subseteq lrTree
        /\ Cardinality(lrListeners) <= Cardinality(lrTree)

(***************************************************************************)
(* C37: the watchers of a mounted component with a conditional directive   *)
(* stay those of one render (a re-render adds none on top), and a data     *)
(* change runs no updateIfBlock of a discarded render.                     *)
(***************************************************************************)
C37_IfWatchersBounded ==
    /\ Len(iwWatchers) <= Cardinality(IfKeys)
    /\ iwLast.ran \subseteq {iwLast.current}

(***************************************************************************)
(* C38: within a render pass every node a loop renders is processed only   *)
(* with the loop scope of its entry, never with the enclosing scope, also  *)
(* when the loop is inside an element whose data-if is true.               *)
(***************************************************************************)
C38_ClonesOnlyInItemScope ==
    \A n \in DOMAIN liOut.inserted :
        \A k \in DOMAIN liOut.inserted[n].scopes : liOut.inserted[n].scopes[k] = "item"

(***************************************************************************)
(* C39: when the loop element carries its own data-if, a rendered loop has *)
(* at most one node per entry after the anchor: the processed element when *)
(* the condition holds for the entry, else only the placeholder; never a   *)
(* raw copy of the template.                                               *)
(***************************************************************************)
C39_OneNodePerEntry ==
    (liOut.valid /\ liTpl.loopIf # "none" /\ liTpl.wrapperIf # "false") =>
        \A i \in DOMAIN liOut.items :
            LET mine == {n \in DOMAIN liOut.inserted : liOut.inserted[n].entry = i} IN
            /\ Cardinality(mine) <= 1
            /\ CondInItemScope(liTpl.loopIf, liOut.items[i]) => mine # {}
            /\ \A n \in mine :
                  liOut.inserted[n].kind =
                      IF CondInItemScope(liTpl.loopIf, liOut.items[i])
                      THEN "processed" ELSE "placeholder"

=============================================================================
